---- MODULE Spec2Model ----
(***************************************************************************)
(* Polygon elimination (lnorton/eliminate): EliminatePolygonsByFID and the *)
(* FeatureCreature helpers it drives.  A run loads every source feature,   *)
(* resolves one touching neighbour per victim, collapses the merge graph   *)
(* and emits one output feature per surviving feature.                     *)
(*                                                                         *)
(* The GDAL/GEOS substrate is the environment: whether a feature has a     *)
(* geometry, whether GEOS calls succeed, the order in which the STR-tree   *)
(* reports candidates and whether CreateFeature succeeds are chosen by the *)
(* environment in the step that makes the call.                            *)
(***************************************************************************)
EXTENDS Integers, Sequences, FiniteSets, TLC

\* ------------------------------------------------------------- bounds ----
NumFeatures == 3      \* features in the source layer
MaxArea == 2          \* polygon areas are 1..MaxArea
MaxLength == 1        \* shared-boundary lengths are 0..MaxLength
MaxFIDs == 2          \* length of the caller's FID array
MaxFaults == 1        \* environment failures per run
MaxStrLen == 3        \* characters of an FID string (longer ones are listed)
MaxPieces == 3        \* pieces a predicate is put together from
MaxArgs == 6          \* command-line arguments after the program name

\* ---------------------------------------------------- program constants --
ELIMINATE_MERGE_LARGEST_AREA == 1
ELIMINATE_MERGE_SMALLEST_AREA == 2
ELIMINATE_MERGE_LONGEST_BOUNDARY == 3

OGRNullFID == 0 - 1

\* ------------------------------------------------------------- source ----
\* Features are numbered in the layer's natural order; feature i has FID i-1
\* (zero is a valid FID).
Features == 1..NumFeatures

FIDOf(i) == i - 1

\* FIDs a caller may pass: the null FID, the present ones and one absent one.
FIDDomain == OGRNullFID..NumFeatures

Pairs == {p \in Features \X Features : p[1] < p[2]}

\* How two geometries relate: bounding boxes disjoint ("far"), bounding boxes
\* intersecting without the polygons touching ("near"), or touching with a
\* shared boundary of the given length (0 when they touch at a point).
Relations ==
    {[kind |-> "far", len |-> 0], [kind |-> "near", len |-> 0]}
        \cup {[kind |-> "touch", len |-> l] : l \in 0..MaxLength}

\* Two polygons that touch, and GEOSLength_r fails on their intersection.
LengthFailures == {[kind |-> "nolength", len |-> 0]}

VARIABLES
    srcArea,       \* feature -> area of its polygon
    srcRelation,   \* pair of features -> Relations
    faults,        \* environment failures so far
    env,           \* what the caller asked for and what the environment did
    run,           \* the state of the run of EliminatePolygonsByFID
    twin,          \* a second run over the same source, or NoRun
    entry          \* the call of an entry point above EliminatePolygonsByFID,
                   \* or NoEntry when EliminatePolygonsByFID is called directly

vars == <<srcArea, srcRelation, faults, env, run, twin, entry>>

NoRun == [pc |-> "none"]

NoEntry == [pc |-> "none"]

\* A C string is the sequence of its characters.  nullptr for a char pointer
\* is a value no string equals.
nullptr == <<"nullptr">>

Relation(a, b) ==
    IF a < b THEN srcRelation[<<a, b>>] ELSE srcRelation[<<b, a>>]

Touches(a, b) == a # b /\ Relation(a, b).kind \in {"touch", "nolength"}

\* ---------------------------------------------------- sequence helpers ---
Range(s) == {s[k] : k \in 1..Len(s)}

RECURSIVE SeqSum(_, _)
SeqSum(s, f) == IF s = <<>> THEN 0 ELSE f[Head(s)] + SeqSum(Tail(s), f)

RECURSIVE SetSum(_, _)
SetSum(S, f) ==
    IF S = {} THEN 0
    ELSE LET x == CHOOSE y \in S : TRUE IN f[x] + SetSum(S \ {x}, f)

Orders(S) ==
    {s \in [1..Cardinality(S) -> S] : \A i, j \in 1..Cardinality(S) : s[i] = s[j] => i = j}

FIDLists == UNION {[1..n -> FIDDomain] : n \in 0..MaxFIDs}

\* ------------------------------------------------ FeatureCreature ---------
\* neighbor_t::larger / smaller / longer: the comparators handed to
\* std::min_element.  a and b are neighbor_t records.
\* Faulty variants of the comparators: the comparison turned around.
largerInverted(a, b) == srcArea[a.poCreature] <= srcArea[b.poCreature]

larger(a, b) == srcArea[a.poCreature] >= srcArea[b.poCreature]

smallerInverted(a, b) == srcArea[a.poCreature] > srcArea[b.poCreature]

smaller(a, b) == srcArea[a.poCreature] < srcArea[b.poCreature]

longerInverted(a, b) == a.dfBoundaryLength <= b.dfBoundaryLength

longer(a, b) == a.dfBoundaryLength >= b.dfBoundaryLength

\* Faulty variant: the default of the switch is the longest boundary.
compDefaultLonger(eMergeType, a, b) ==
    IF eMergeType = ELIMINATE_MERGE_SMALLEST_AREA THEN smaller(a, b)
    ELSE IF eMergeType = ELIMINATE_MERGE_LARGEST_AREA THEN larger(a, b)
    ELSE longer(a, b)

\* The switch of findNeighbor(eMergeType): LARGEST_AREA and default share
\* the comparator larger.
comp(eMergeType, a, b) ==
    IF eMergeType = ELIMINATE_MERGE_SMALLEST_AREA THEN smaller(a, b)
    ELSE IF eMergeType = ELIMINATE_MERGE_LONGEST_BOUNDARY THEN longer(a, b)
    ELSE larger(a, b)

\* findNeighbor: std::min_element over m_lstNeighbors, as the library runs it
\* (libstdc++, libc++ and MSVC alike): the result starts at the first element
\* and moves to a later element whenever comp(later, result) holds.  larger
\* and longer are not strict orderings, which the standard asks for; the loop
\* is what every build executes.  Returns the position, 0 for nullptr.
findNeighbor(lstNeighbors, eMergeType) ==
    LET n == Len(lstNeighbors)
        best[k \in 1..n] ==
            IF k = 1 THEN 1
            ELSE IF comp(eMergeType, lstNeighbors[k], lstNeighbors[best[k - 1]])
                 THEN k ELSE best[k - 1]
    IN  IF n = 0 THEN 0 ELSE best[n]

\* addNeighborIfTouching over the candidates in the order the index gave them:
\* one neighbor_t per touching candidate, in that order.
RECURSIVE addNeighborsIfTouching(_, _)
addNeighborsIfTouching(v, lstpoNeighbors) ==
    IF lstpoNeighbors = <<>> THEN <<>>
    ELSE LET c == Head(lstpoNeighbors)
             rest == addNeighborsIfTouching(v, Tail(lstpoNeighbors))
         IN  IF Touches(v, c)
             THEN <<[poCreature |-> c, dfBoundaryLength |-> Relation(v, c).len]>> \o rest
             ELSE rest

\* The warnings of addNeighborIfTouching over the same candidates: one per
\* touching candidate whose length calculation failed.
RECURSIVE lengthWarnings(_, _)
lengthWarnings(v, lstpoNeighbors) ==
    IF lstpoNeighbors = <<>> THEN <<>>
    ELSE LET c == Head(lstpoNeighbors)
             rest == lengthWarnings(v, Tail(lstpoNeighbors))
         IN  IF Relation(v, c).kind = "nolength"
             THEN <<<<"Failed length calculation on boundary", v, c>>>> \o rest
             ELSE rest

\* Faulty variant: the creature is handed to every node that already has one.
addCreatureToMergeSpread(toMerge, n, v) ==
    [c \in DOMAIN toMerge |->
        IF c = n \/ (c # v /\ toMerge[c] # <<>>) THEN Append(toMerge[c], v)
        ELSE toMerge[c]]

\* Faulty variant: the edge is recorded at both of its ends.
addCreatureToMergeBoth(toMerge, n, v) ==
    [toMerge EXCEPT ![n] = Append(@, v), ![v] = Append(@, n)]

\* Faulty variant: the creature is pushed twice.
addCreatureToMergeTwice(toMerge, n, v) == [toMerge EXCEPT ![n] = Append(Append(@, v), v)]

\* addCreatureToMerge: v is appended to n's list of creatures to merge.
addCreatureToMerge(toMerge, n, v) == [toMerge EXCEPT ![n] = Append(@, v)]

\* Faulty variant: the directly assigned creatures only, without recursion.
allCreaturesToMergeDirect(c, toMerge) == toMerge[c]

\* allCreaturesToMerge: the creatures assigned to c, each followed by its own.
RECURSIVE allCreaturesToMerge(_, _)
RECURSIVE allOfEach(_, _)
allOfEach(lst, toMerge) ==
    IF lst = <<>> THEN <<>>
    ELSE <<Head(lst)>> \o allCreaturesToMerge(Head(lst), toMerge)
             \o allOfEach(Tail(lst), toMerge)

allCreaturesToMerge(c, toMerge) == allOfEach(toMerge[c], toMerge)

\* --------------------------------------------- EliminatePolygonsByFID -----
\* Faulty variant: the array is read up to its first valid FID only.
BuildFIDSetFirstOnly(panEliminateFIDs) ==
    LET valid == SelectSeq(panEliminateFIDs, LAMBDA nFID : nFID >= 0)
    IN  IF valid = <<>> THEN {} ELSE {valid[1]}

\* The set built from the caller's array: negative FIDs are skipped.
BuildFIDSet(panEliminateFIDs) ==
    {panEliminateFIDs[i] : i \in {k \in 1..Len(panEliminateFIDs) : panEliminateFIDs[k] >= 0}}

NewRun(panEliminateFIDs, eMergeType) ==
    [pc |-> "start",
     ret |-> "none",
     panEliminateFIDs |-> panEliminateFIDs,
     eMergeType |-> eMergeType,
     setFIDsToEliminate |-> {},
     iFeature |-> 1,
     lstFeatures |-> <<>>,
     lstpoFeaturesToKeep |-> <<>>,
     lstpoFeaturesToEliminate |-> <<>>,
     poSTRTree |-> {},
     prepared |-> {},
     m_lstNeighbors |-> [c \in Features |-> <<>>],
     m_lstpoCreaturesToMerge |-> [c \in Features |-> <<>>],
     iEliminate |-> 1,
     iKeep |-> 1,
     dstLayer |-> <<>>,
     warnings |-> <<>>,
     released |-> <<>>]

\* Entry: the GEOS check, then the FID set, the context and the index.  The
\* caller's array is read here and nowhere else; it is dropped once read.
StartStep(r, bHaveGEOS) ==
    IF ~bHaveGEOS
    THEN [r EXCEPT !.pc = "done", !.ret = "OGRERR_UNSUPPORTED_OPERATION",
                   !.panEliminateFIDs = <<>>]
    ELSE [r EXCEPT !.pc = "load",
                   !.setFIDsToEliminate = BuildFIDSet(r.panEliminateFIDs),
                   !.panEliminateFIDs = <<>>]

\* Faulty variant: a feature without geometry is warned about and kept.
LoadStepKeepNoGeometry(r, outcome) ==
    LET c == r.iFeature
        created == [r EXCEPT !.iFeature = c + 1,
                             !.lstFeatures = Append(r.lstFeatures, c)]
        isVictim == FIDOf(c) \in r.setFIDsToEliminate
        warned == IF outcome = "nogeometry"
                  THEN [created EXCEPT
                          !.warnings = Append(r.warnings, <<"No geometry?", c>>)]
                  ELSE created
    IN  IF isVictim
        THEN IF outcome = "noprepare"
             THEN [created EXCEPT
                     !.warnings = Append(r.warnings, <<"That shouldn't happen. (2)", c>>)]
             ELSE [warned EXCEPT
                     !.prepared = r.prepared \cup {c},
                     !.setFIDsToEliminate = r.setFIDsToEliminate \ {FIDOf(c)},
                     !.lstpoFeaturesToEliminate = Append(r.lstpoFeaturesToEliminate, c),
                     !.poSTRTree = r.poSTRTree \cup {c}]
        ELSE [warned EXCEPT
                !.lstpoFeaturesToKeep = Append(r.lstpoFeaturesToKeep, c),
                !.poSTRTree = r.poSTRTree \cup {c}]

\* Faulty variant: a victim is put on the list of features to keep as well.
LoadStepVictimAlsoKept(r, outcome) ==
    LET c == r.iFeature
        created == [r EXCEPT !.iFeature = c + 1,
                             !.lstFeatures = Append(r.lstFeatures, c)]
        isVictim == FIDOf(c) \in r.setFIDsToEliminate
    IN  IF outcome = "nogeometry"
        THEN [created EXCEPT !.warnings = Append(r.warnings, <<"No geometry?", c>>)]
        ELSE IF isVictim /\ outcome = "noprepare"
        THEN [created EXCEPT
                !.warnings = Append(r.warnings, <<"That shouldn't happen. (2)", c>>)]
        ELSE [created EXCEPT
                !.prepared = IF isVictim THEN r.prepared \cup {c} ELSE r.prepared,
                !.setFIDsToEliminate = r.setFIDsToEliminate \ {FIDOf(c)},
                !.lstpoFeaturesToEliminate =
                    IF isVictim THEN Append(r.lstpoFeaturesToEliminate, c)
                    ELSE r.lstpoFeaturesToEliminate,
                !.lstpoFeaturesToKeep = Append(r.lstpoFeaturesToKeep, c),
                !.poSTRTree = r.poSTRTree \cup {c}]

\* Faulty variant: the FID set is not consulted, every feature is kept.
LoadStepAllKeep(r, outcome) ==
    LET c == r.iFeature
        created == [r EXCEPT !.iFeature = c + 1,
                             !.lstFeatures = Append(r.lstFeatures, c)]
    IN  IF outcome = "nogeometry"
        THEN [created EXCEPT !.warnings = Append(r.warnings, <<"No geometry?", c>>)]
        ELSE [created EXCEPT
                !.lstpoFeaturesToKeep = Append(r.lstpoFeaturesToKeep, c),
                !.poSTRTree = r.poSTRTree \cup {c}]

\* One iteration of the loader loop over the source layer.  outcome is what
\* GDAL/GEOS did for this feature: "ok", "nogeometry" (GetGeometryRef or
\* exportToGEOS gave nothing) or "noprepare" (GEOSPrepare gave nothing).
LoadStep(r, outcome) ==
    LET c == r.iFeature
        created == [r EXCEPT !.iFeature = c + 1,
                             !.lstFeatures = Append(r.lstFeatures, c)]
        isVictim == FIDOf(c) \in r.setFIDsToEliminate
    IN  IF outcome = "nogeometry"
        THEN [created EXCEPT !.warnings = Append(r.warnings, <<"No geometry?", c>>)]
        ELSE IF isVictim
        THEN IF outcome = "noprepare"
             THEN [created EXCEPT
                     !.warnings = Append(r.warnings, <<"That shouldn't happen. (2)", c>>)]
             ELSE [created EXCEPT
                     !.prepared = r.prepared \cup {c},
                     !.setFIDsToEliminate = r.setFIDsToEliminate \ {FIDOf(c)},
                     !.lstpoFeaturesToEliminate = Append(r.lstpoFeaturesToEliminate, c),
                     !.poSTRTree = r.poSTRTree \cup {c}]
        ELSE [created EXCEPT
                !.lstpoFeaturesToKeep = Append(r.lstpoFeaturesToKeep, c),
                !.poSTRTree = r.poSTRTree \cup {c}]

\* The position after a loop has been left: the next loop that has work.
AfterLoad(r) ==
    IF r.lstpoFeaturesToEliminate # <<>> THEN "resolve"
    ELSE IF r.lstpoFeaturesToKeep # <<>> THEN "emit"
    ELSE "teardown"

AfterResolve(r) ==
    IF r.lstpoFeaturesToKeep # <<>> THEN "emit" ELSE "teardown"

\* Faulty variant: FIDs not found in the source end the run with an error.
LoadDoneStepFatal(r) ==
    IF r.setFIDsToEliminate # {}
    THEN [r EXCEPT !.pc = "done", !.ret = "OGRERR_FAILURE"]
    ELSE [r EXCEPT !.pc = AfterLoad(r)]

\* The end of the loader loop: the FIDs never met in the source are reported.
LoadDoneStep(r) ==
    LET warned ==
            IF r.setFIDsToEliminate # {}
            THEN [r EXCEPT !.warnings = Append(r.warnings,
                     <<"selected features not found in source layer!",
                       Cardinality(r.setFIDsToEliminate)>>)]
            ELSE r
    IN  [warned EXCEPT !.pc = AfterLoad(r)]

\* What GEOSSTRtree_query_r reports for v once the callback dropped v itself.
Candidates(r, v) == {c \in r.poSTRTree : c # v /\ Relation(v, c).kind # "far"}

\* Faulty variant: every candidate is recorded as a neighbour, touching or not.
ResolveStepUntested(r, lstpoNeighbors) ==
    LET v == r.lstpoFeaturesToEliminate[r.iEliminate]
        next == r.iEliminate + 1
        pcNext == IF next > Len(r.lstpoFeaturesToEliminate)
                  THEN AfterResolve(r) ELSE "resolve"
        moved == [r EXCEPT !.iEliminate = next, !.pc = pcNext]
        lstNeighbors ==
            [k \in 1..Len(lstpoNeighbors) |->
                [poCreature |-> lstpoNeighbors[k],
                 dfBoundaryLength |-> Relation(v, lstpoNeighbors[k]).len]]
        iNeighbor == findNeighbor(lstNeighbors, r.eMergeType)
        recorded == [moved EXCEPT !.m_lstNeighbors[v] = lstNeighbors]
    IN  IF lstpoNeighbors = <<>>
        THEN [moved EXCEPT !.warnings = Append(r.warnings, <<"No neighbors?", v>>)]
        ELSE [recorded EXCEPT
                !.m_lstpoCreaturesToMerge =
                    addCreatureToMerge(r.m_lstpoCreaturesToMerge,
                                       lstNeighbors[iNeighbor].poCreature, v)]

\* Faulty variant: a neighbour without shared boundary length is not recorded.
ResolveStepPositiveLength(r, lstpoNeighbors) ==
    LET v == r.lstpoFeaturesToEliminate[r.iEliminate]
        next == r.iEliminate + 1
        pcNext == IF next > Len(r.lstpoFeaturesToEliminate)
                  THEN AfterResolve(r) ELSE "resolve"
        moved == [r EXCEPT !.iEliminate = next, !.pc = pcNext]
        lstNeighbors == SelectSeq(addNeighborsIfTouching(v, lstpoNeighbors),
                                  LAMBDA e : e.dfBoundaryLength > 0)
        iNeighbor == findNeighbor(lstNeighbors, r.eMergeType)
        recorded == [moved EXCEPT
                        !.m_lstNeighbors[v] = lstNeighbors,
                        !.warnings = r.warnings \o lengthWarnings(v, lstpoNeighbors)]
    IN  IF lstpoNeighbors = <<>>
        THEN [moved EXCEPT !.warnings = Append(r.warnings, <<"No neighbors?", v>>)]
        ELSE IF iNeighbor = 0
        THEN [recorded EXCEPT
                !.warnings = Append(recorded.warnings, <<"No touching neighbors?", v>>)]
        ELSE LET n == lstNeighbors[iNeighbor].poCreature
             IN  [recorded EXCEPT
                    !.m_lstpoCreaturesToMerge =
                        addCreatureToMerge(r.m_lstpoCreaturesToMerge, n, v)]

\* Faulty variant: a victim nothing touches is merged into its first candidate.
ResolveStepFirstCandidate(r, lstpoNeighbors) ==
    LET v == r.lstpoFeaturesToEliminate[r.iEliminate]
        next == r.iEliminate + 1
        pcNext == IF next > Len(r.lstpoFeaturesToEliminate)
                  THEN AfterResolve(r) ELSE "resolve"
        moved == [r EXCEPT !.iEliminate = next, !.pc = pcNext]
        lstNeighbors == addNeighborsIfTouching(v, lstpoNeighbors)
        iNeighbor == findNeighbor(lstNeighbors, r.eMergeType)
        recorded == [moved EXCEPT !.m_lstNeighbors[v] = lstNeighbors]
        n == IF iNeighbor = 0 THEN lstpoNeighbors[1]
             ELSE lstNeighbors[iNeighbor].poCreature
    IN  IF lstpoNeighbors = <<>>
        THEN [moved EXCEPT !.warnings = Append(r.warnings, <<"No neighbors?", v>>)]
        ELSE [recorded EXCEPT
                !.m_lstpoCreaturesToMerge =
                    addCreatureToMerge(r.m_lstpoCreaturesToMerge, n, v)]

\* One iteration of the neighbour-resolution loop; lstpoNeighbors is the
\* candidate list in the order the index reported it.
ResolveStep(r, lstpoNeighbors) ==
    LET v == r.lstpoFeaturesToEliminate[r.iEliminate]
        next == r.iEliminate + 1
        pcNext == IF next > Len(r.lstpoFeaturesToEliminate)
                  THEN AfterResolve(r) ELSE "resolve"
        moved == [r EXCEPT !.iEliminate = next, !.pc = pcNext]
        lstNeighbors == addNeighborsIfTouching(v, lstpoNeighbors)
        iNeighbor == findNeighbor(lstNeighbors, r.eMergeType)
        recorded == [moved EXCEPT
                        !.m_lstNeighbors[v] = lstNeighbors,
                        !.warnings = r.warnings \o lengthWarnings(v, lstpoNeighbors)]
    IN  IF lstpoNeighbors = <<>>
        THEN [moved EXCEPT !.warnings = Append(r.warnings, <<"No neighbors?", v>>)]
        ELSE IF iNeighbor = 0
        THEN [recorded EXCEPT
                !.warnings = Append(recorded.warnings, <<"No touching neighbors?", v>>)]
        ELSE LET n == lstNeighbors[iNeighbor].poCreature
             IN  [recorded EXCEPT
                    !.m_lstpoCreaturesToMerge =
                        addCreatureToMerge(r.m_lstpoCreaturesToMerge, n, v)]

\* Faulty variant: a failed write leaves the emitter loop.
EmitStepBreak(r, bUnion, bCreate) ==
    LET s == r.lstpoFeaturesToKeep[r.iKeep]
        lstpoCreaturesToMerge == allCreaturesToMerge(s, r.m_lstpoCreaturesToMerge)
        next == r.iKeep + 1
        moved == [r EXCEPT !.iKeep = next,
                           !.pc = IF next > Len(r.lstpoFeaturesToKeep)
                                  THEN "teardown" ELSE "emit"]
        row == [poFeature |-> s, geometries |-> <<s>> \o lstpoCreaturesToMerge]
    IN  IF lstpoCreaturesToMerge # <<>> /\ ~bUnion
        THEN [r EXCEPT !.pc = "crashed"]
        ELSE IF bCreate
        THEN [moved EXCEPT !.dstLayer = Append(r.dstLayer, row)]
        ELSE [moved EXCEPT !.pc = "teardown"]

\* Faulty variant: the survivor is written with its own geometry, no union.
EmitStepOwnGeometry(r, bUnion, bCreate) ==
    LET s == r.lstpoFeaturesToKeep[r.iKeep]
        next == r.iKeep + 1
        moved == [r EXCEPT !.iKeep = next,
                           !.pc = IF next > Len(r.lstpoFeaturesToKeep)
                                  THEN "teardown" ELSE "emit"]
        row == [poFeature |-> s, geometries |-> <<s>>]
    IN  IF bCreate
        THEN [moved EXCEPT !.dstLayer = Append(r.dstLayer, row)]
        ELSE [moved EXCEPT !.warnings = Append(r.warnings,
                <<"Failed to create feature in destination layer.", s>>)]

\* One iteration of the emitter loop.  bUnion: GEOSUnaryUnion_r gave a
\* geometry; bCreate: CreateFeature in the destination layer succeeded.
\* A missing union result is not tested: createFromGEOS is handed the null
\* geometry and the virtual assignSpatialReference is called through the null
\* pointer it returns (602), where the process dies on every platform GDAL
\* builds for; nothing is caught and no later statement runs.
EmitStep(r, bUnion, bCreate) ==
    LET s == r.lstpoFeaturesToKeep[r.iKeep]
        lstpoCreaturesToMerge == allCreaturesToMerge(s, r.m_lstpoCreaturesToMerge)
        next == r.iKeep + 1
        moved == [r EXCEPT !.iKeep = next,
                           !.pc = IF next > Len(r.lstpoFeaturesToKeep)
                                  THEN "teardown" ELSE "emit"]
        row == [poFeature |-> s, geometries |-> <<s>> \o lstpoCreaturesToMerge]
    IN  IF lstpoCreaturesToMerge # <<>> /\ ~bUnion
        THEN [r EXCEPT !.pc = "crashed"]
        ELSE IF bCreate
        THEN [moved EXCEPT !.dstLayer = Append(r.dstLayer, row)]
        ELSE [moved EXCEPT !.warnings = Append(r.warnings,
                <<"Failed to create feature in destination layer.", s>>)]

\* Faulty variant: the feature nodes are cleared before the index is destroyed.
TeardownStepFeaturesFirst(r) ==
    [r EXCEPT !.pc = "done", !.ret = "OGRERR_NONE",
              !.poSTRTree = {},
              !.released = <<"lstFeatures", "poSTRTree", "hGEOSCtxt">>]

\* Teardown: the index, then the feature nodes, then the GEOS context.
TeardownStep(r) ==
    [r EXCEPT !.pc = "done", !.ret = "OGRERR_NONE",
              !.poSTRTree = {},
              !.released = <<"poSTRTree", "lstFeatures", "hGEOSCtxt">>]

\* ------------------------------------------------------------ actions -----
MayFail == faults < MaxFaults

Fault(ok) == faults' = IF ok THEN faults ELSE faults + 1

MergeTypes ==
    {ELIMINATE_MERGE_LARGEST_AREA, ELIMINATE_MERGE_SMALLEST_AREA,
     ELIMINATE_MERGE_LONGEST_BOUNDARY}

\* The record of the environment: the valid FIDs the caller listed, what
\* loading each feature met, and what CreateFeature answered for each
\* surviving feature.
NewEnv(panEliminateFIDs) ==
    [victims |-> Range(panEliminateFIDs) \ {OGRNullFID},
     load |-> [c \in Features |-> "unread"],
     create |-> [c \in Features |-> "untried"]]

InitSource ==
    /\ srcArea \in [Features -> 1..MaxArea]
    /\ srcRelation \in [Pairs -> Relations]
    /\ faults = 0

Init ==
    /\ InitSource
    /\ \E l \in FIDLists : \E m \in MergeTypes :
        /\ run = NewRun(l, m)
        /\ env = NewEnv(l)
    /\ twin = NoRun
    /\ entry = NoEntry

StartOutcomes == {TRUE} \cup {b \in {FALSE} : MayFail}

LoadOutcomes(r) ==
    {"ok"} \cup {o \in {"nogeometry"} : MayFail}
           \cup {o \in {"noprepare"} :
                    MayFail /\ FIDOf(r.iFeature) \in r.setFIDsToEliminate}

\* (bUnion, bCreate) pairs; CreateFeature is not reached without a geometry.
EmitOutcomes ==
    {<<TRUE, TRUE>>} \cup {o \in {<<FALSE, FALSE>>, <<TRUE, FALSE>>} : MayFail}

Emitting(r) == r.lstpoFeaturesToKeep[r.iKeep]

Resolving(r) == r.lstpoFeaturesToEliminate[r.iEliminate]

EnvLoad(outcome) == env' = [env EXCEPT !.load[run.iFeature] = outcome]

EnvCreate(r2, bCreate) ==
    env' = IF r2.pc = "crashed" THEN env
           ELSE [env EXCEPT !.create[Emitting(run)] =
                                IF bCreate THEN "ok" ELSE "failed"]

Start ==
    /\ run.pc = "start"
    /\ \E bHaveGEOS \in StartOutcomes :
        /\ run' = StartStep(run, bHaveGEOS)
        /\ Fault(bHaveGEOS)
    /\ UNCHANGED <<srcArea, srcRelation, env, twin, entry>>

\* The layer delivers a feature to the loop over it when it has no attribute
\* filter, or the feature is one of those read under the filter.
Delivered(c) ==
    \/ entry = NoEntry
    \/ entry.attributeFilter = nullptr
    \/ FIDOf(c) \in Range(entry.vecFIDsToEliminate)

\* The loop over the layer passes over a feature the layer does not deliver.
FilteredStep(r) == [r EXCEPT !.iFeature = r.iFeature + 1]

Load ==
    /\ run.pc = "load"
    /\ run.iFeature <= NumFeatures
    /\ IF Delivered(run.iFeature)
       THEN \E outcome \in LoadOutcomes(run) :
                /\ run' = LoadStep(run, outcome)
                /\ EnvLoad(outcome)
                /\ Fault(outcome = "ok")
       ELSE /\ run' = FilteredStep(run)
            /\ UNCHANGED <<env, faults>>
    /\ UNCHANGED <<srcArea, srcRelation, twin, entry>>

LoadDone ==
    /\ run.pc = "load"
    /\ run.iFeature > NumFeatures
    /\ run' = LoadDoneStep(run)
    /\ UNCHANGED <<srcArea, srcRelation, faults, env, twin, entry>>

Resolve ==
    /\ run.pc = "resolve"
    /\ \E lstpoNeighbors \in Orders(Candidates(run, Resolving(run))) :
        run' = ResolveStep(run, lstpoNeighbors)
    /\ UNCHANGED <<srcArea, srcRelation, faults, env, twin, entry>>

Emit ==
    /\ run.pc = "emit"
    /\ \E o \in EmitOutcomes :
        /\ run' = EmitStep(run, o[1], o[2])
        /\ EnvCreate(run', o[2])
        /\ Fault(o[1] /\ o[2])
    /\ UNCHANGED <<srcArea, srcRelation, twin, entry>>

Teardown ==
    /\ run.pc = "teardown"
    /\ run' = TeardownStep(run)
    /\ UNCHANGED <<srcArea, srcRelation, faults, env, twin, entry>>

Next == Start \/ Load \/ LoadDone \/ Resolve \/ Emit \/ Teardown

Spec == Init /\ [][Next]_vars

\* ---------------------------------------------------------- two runs -----
\* Two runs over the same source layer, started with different arguments and
\* met by the same environment, step together.
BothAt(pc) == run.pc = pc /\ twin.pc = pc

TwinStart ==
    /\ BothAt("start")
    /\ \E bHaveGEOS \in StartOutcomes :
        /\ run' = StartStep(run, bHaveGEOS)
        /\ twin' = StartStep(twin, bHaveGEOS)
        /\ Fault(bHaveGEOS)
    /\ UNCHANGED <<srcArea, srcRelation, env, entry>>

TwinLoad ==
    /\ BothAt("load")
    /\ run.iFeature <= NumFeatures
    /\ twin.iFeature = run.iFeature
    /\ \E outcome \in LoadOutcomes(run) :
        /\ run' = LoadStep(run, outcome)
        /\ twin' = LoadStep(twin, outcome)
        /\ EnvLoad(outcome)
        /\ Fault(outcome = "ok")
    /\ UNCHANGED <<srcArea, srcRelation, entry>>

TwinLoadDone ==
    /\ BothAt("load")
    /\ run.iFeature > NumFeatures
    /\ twin.iFeature = run.iFeature
    /\ run' = LoadDoneStep(run)
    /\ twin' = LoadDoneStep(twin)
    /\ UNCHANGED <<srcArea, srcRelation, faults, env, entry>>

TwinResolve ==
    /\ BothAt("resolve")
    /\ Resolving(twin) = Resolving(run)
    /\ \E lstpoNeighbors \in Orders(Candidates(run, Resolving(run))) :
        /\ run' = ResolveStep(run, lstpoNeighbors)
        /\ twin' = ResolveStep(twin, lstpoNeighbors)
    /\ UNCHANGED <<srcArea, srcRelation, faults, env, entry>>

TwinEmit ==
    /\ BothAt("emit")
    /\ Emitting(twin) = Emitting(run)
    /\ \E o \in EmitOutcomes :
        /\ run' = EmitStep(run, o[1], o[2])
        /\ twin' = EmitStep(twin, o[1], o[2])
        /\ EnvCreate(run', o[2])
        /\ Fault(o[1] /\ o[2])
    /\ UNCHANGED <<srcArea, srcRelation, entry>>

TwinTeardown ==
    /\ BothAt("teardown")
    /\ run' = TeardownStep(run)
    /\ twin' = TeardownStep(twin)
    /\ UNCHANGED <<srcArea, srcRelation, faults, env, entry>>

NextTwin ==
    TwinStart \/ TwinLoad \/ TwinLoadDone \/ TwinResolve \/ TwinEmit \/ TwinTeardown

\* The FIDs of FIDDomain that no source feature carries.
AbsentFIDs == {f \in FIDDomain : f >= 0 /\ \A c \in Features : FIDOf(c) # f}

\* run is given the list of twin followed by an FID absent from the source.
InitAbsent ==
    /\ InitSource
    /\ \E l \in FIDLists : \E a \in AbsentFIDs : \E m \in MergeTypes :
        /\ twin = NewRun(l, m)
        /\ run = NewRun(Append(l, a), m)
        /\ env = NewEnv(Append(l, a))
    /\ entry = NoEntry

SpecAbsent == InitAbsent /\ [][NextTwin]_vars

\* The rearrangements of a list.
Rearrangements(l) ==
    {[k \in 1..Len(l) |-> l[p[k]]] : p \in Orders(1..Len(l))}

\* twin is given a list and run a rearrangement of it; the record of the
\* environment keeps the two lists as the caller passed them.
InitPermuted ==
    /\ InitSource
    /\ \E l \in FIDLists : \E p \in Rearrangements(l) : \E m \in MergeTypes :
        /\ twin = NewRun(l, m)
        /\ run = NewRun(p, m)
        /\ env = NewEnv(l) @@ [asked |-> <<l, p>>]
    /\ entry = NoEntry

SpecPermuted == InitPermuted /\ [][NextTwin]_vars

\* The run over sources where the length of a shared boundary may fail to
\* be computed.
InitLength ==
    /\ srcArea \in [Features -> 1..MaxArea]
    /\ srcRelation \in [Pairs -> Relations \cup LengthFailures]
    /\ faults = 0
    /\ \E l \in FIDLists : \E m \in MergeTypes :
        /\ run = NewRun(l, m)
        /\ env = NewEnv(l)
    /\ twin = NoRun
    /\ entry = NoEntry

SpecLength == InitLength /\ [][Next]_vars

\* ------------------------------------------------------------ strings ----
Digits == <<"0", "1", "2", "3", "4", "5", "6", "7", "8", "9">>

IsDigit(c) == c \in Range(Digits)

DigitValue(c) == (CHOOSE k \in 1..Len(Digits) : Digits[k] = c) - 1

IsSpace(c) == c = " "

\* The decimal numerals of LLONG_MAX (2^63 - 1) and of -LLONG_MIN (2^63).
LLONG_MAX ==
    <<"9", "2", "2", "3", "3", "7", "2", "0", "3", "6",
      "8", "5", "4", "7", "7", "5", "8", "0", "7">>

LLONG_MIN ==
    <<"9", "2", "2", "3", "3", "7", "2", "0", "3", "6",
      "8", "5", "4", "7", "7", "5", "8", "0", "8">>

\* A numeral without its leading zeros (the numeral of zero is empty).
RECURSIVE Significant(_)
Significant(digits) ==
    IF digits # <<>> /\ Head(digits) = "0" THEN Significant(Tail(digits))
    ELSE digits

\* The numeral a stands for a greater number than the numeral b.
Exceeds(a, b) ==
    LET x == Significant(a)
        y == Significant(b)
    IN  \/ Len(x) > Len(y)
        \/ /\ Len(x) = Len(y)
           /\ \E k \in 1..Len(x) :
                /\ DigitValue(x[k]) > DigitValue(y[k])
                /\ \A j \in 1..(k - 1) : x[j] = y[j]

\* The first position from k on that holds no white space (no digit), or one
\* past the end.
RECURSIVE SkipSpaces(_, _)
SkipSpaces(str, k) ==
    IF k <= Len(str) /\ IsSpace(str[k]) THEN SkipSpaces(str, k + 1) ELSE k

RECURSIVE SkipDigits(_, _)
SkipDigits(str, k) ==
    IF k <= Len(str) /\ IsDigit(str[k]) THEN SkipDigits(str, k + 1) ELSE k

\* The number a numeral in range stands for, digit by digit.
RECURSIVE Accumulate(_, _)
Accumulate(acc, digits) ==
    IF digits = <<>> THEN acc
    ELSE Accumulate(acc * Len(Digits) + DigitValue(Head(digits)), Tail(digits))

\* strtoll(nptr, &endptr, 10): white space, an optional sign, digits.  endptr
\* is the position of the first character not converted (the start when there
\* is no digit); a number out of range sets ERANGE.  The sign and the digits
\* are the result, since the model's integers are narrower than 64 bits.
strtoll(nptr) ==
    LET iSign == SkipSpaces(nptr, 1)
        bSign == iSign <= Len(nptr) /\ nptr[iSign] \in {"-", "+"}
        neg == bSign /\ nptr[iSign] = "-"
        iDigits == IF bSign THEN iSign + 1 ELSE iSign
        iEnd == SkipDigits(nptr, iDigits)
        digits == SubSeq(nptr, iDigits, iEnd - 1)
    IN  IF digits = <<>>
        THEN [neg |-> FALSE, digits |-> <<>>, endptr |-> 1, errno |-> "0"]
        ELSE [neg |-> neg, digits |-> digits, endptr |-> iEnd,
              errno |-> IF Exceeds(digits, IF neg THEN LLONG_MIN ELSE LLONG_MAX)
                        THEN "ERANGE" ELSE "0"]

\* Faulty variant: the end of the conversion is not looked at, as with atoll.
CPLAtoFIDNoEndCheck(pszString) ==
    IF pszString = nullptr \/ pszString = <<>> THEN OGRNullFID
    ELSE LET r == strtoll(pszString)
         IN  IF r.errno = "ERANGE" \/ (r.neg /\ Significant(r.digits) # <<>>)
             THEN OGRNullFID
             ELSE Accumulate(0, r.digits)

\* CPLAtoFID: nFID < 0 is the sign with a digit other than zero.
CPLAtoFID(pszString) ==
    IF pszString = nullptr \/ pszString = <<>> THEN OGRNullFID
    ELSE LET r == strtoll(pszString)
         IN  IF \/ r.errno = "ERANGE"
                \/ (r.neg /\ Significant(r.digits) # <<>>)
                \/ r.endptr <= Len(pszString)
             THEN OGRNullFID
             ELSE Accumulate(0, r.digits)

\* The FID strings: every string of up to MaxStrLen characters of StrAlphabet,
\* and signed numerals at the ends of the range of 64 bits.
StrAlphabet == {"0", "1", "2", " ", "-", "+", "x"}

ShortStrings == UNION {[1..n -> StrAlphabet] : n \in 0..MaxStrLen}

TinyStrings == UNION {[1..n -> StrAlphabet] : n \in 0..1}

LongStrings ==
    {<<"-">> \o LLONG_MAX} \cup
    {sign \o digits :
        sign \in {<<>>, <<"-">>, <<"+">>},
        digits \in {LLONG_MIN, Append(LLONG_MIN, "0"),
                    [LLONG_MIN EXCEPT ![Len(LLONG_MIN)] = "9"]}}

FIDStrings == ShortStrings \cup LongStrings

FIDStrLists ==
    {<<>>} \cup {<<str>> : str \in FIDStrings}
           \cup {<<str, tiny>> : str \in FIDStrings, tiny \in TinyStrings}

\* std::string::find from position pos: the first position at or after pos
\* where needle begins, 0 for npos.
find(str, needle, pos) ==
    LET hits == {k \in pos..(Len(str) - Len(needle) + 1) :
                    SubSeq(str, k, k + Len(needle) - 1) = needle}
    IN  IF hits = {} THEN 0 ELSE CHOOSE k \in hits : \A j \in hits : k <= j

\* CPLString::replaceAll: every occurrence found from nStartPos on is
\* replaced, and the search goes on behind the replacement.
RECURSIVE replaceAllFrom(_, _, _, _)
replaceAllFrom(str, osBefore, osAfter, nStartPos) ==
    LET k == find(str, osBefore, nStartPos)
    IN  IF k = 0 THEN str
        ELSE replaceAllFrom(
                SubSeq(str, 1, k - 1) \o osAfter
                    \o SubSeq(str, k + Len(osBefore), Len(str)),
                osBefore, osAfter, k + Len(osAfter))

replaceAll(str, osBefore, osAfter) ==
    IF osBefore = <<>> THEN str ELSE replaceAllFrom(str, osBefore, osAfter, 1)

OGR_GEOM_AREA ==
    <<"O", "G", "R", "_", "G", "E", "O", "M", "_", "A", "R", "E", "A">>

\* osAreaExpr for the geometry column osGeomColumn.
AreaExpr(osGeomColumn) ==
    <<"S", "T", "_", "A", "r", "e", "a", "(">> \o osGeomColumn \o <<")">>

\* osWhere as EliminatePolygonsWithOptionsEx hands it on.
WhereForDriver(pszWhere, osDriverName, osGeomColumn) ==
    IF (osDriverName = "SQLite" \/ osDriverName = "GPKG") /\ osGeomColumn # <<>>
    THEN replaceAll(pszWhere, OGR_GEOM_AREA, AreaExpr(osGeomColumn))
    ELSE pszWhere

\* The predicates: up to MaxPieces pieces put together, among them the area
\* token, a letter, a blank, the beginning of the token and a comparison.
WherePieces ==
    {OGR_GEOM_AREA, <<"X">>, <<" ">>, <<"O", "G", "R", "_">>, <<"<", "1">>}

RECURSIVE Concatenations(_)
Concatenations(n) ==
    IF n = 0 THEN {<<>>}
    ELSE LET shorter == Concatenations(n - 1)
         IN  shorter \cup {str \o piece : str \in shorter, piece \in WherePieces}

Predicates == Concatenations(MaxPieces)

Drivers == {"SQLite", "GPKG", "ESRI Shapefile"}

GeomColumns == {<<>>, <<"g">>}

\* "OGR_GEOM_AREA < %f" for the whole number dfMin, as the command line
\* builds it for -min.
AreaWhere(dfMin) ==
    OGR_GEOM_AREA \o <<" ", "<", " ">> \o <<Digits[dfMin + 1]>>
        \o <<".", "0", "0", "0", "0", "0", "0">>

\* The FIDs of the features of S in the order the layer is read.
FIDsOf(S) ==
    LET sel == SelectSeq([c \in Features |-> c], LAMBDA c : c \in S)
    IN  [k \in 1..Len(sel) |-> FIDOf(sel[k])]

\* The FIDs read from a layer whose features have the areas dfAreas under the
\* filter OGR_GEOM_AREA < dfMin.
AreaSelection(dfAreas, dfMin) ==
    LET sel == SelectSeq([c \in 1..Len(dfAreas) |-> c],
                         LAMBDA c : dfAreas[c] < dfMin)
    IN  [k \in 1..Len(sel) |-> FIDOf(sel[k])]

\* What reading the layer under the attribute filter pszWhere can give: for
\* the area predicate the features below the threshold, for any other
\* predicate any of the features.
Selections(pszWhere) ==
    IF \E dfMin \in 0..(Len(Digits) - 1) : pszWhere = AreaWhere(dfMin)
    THEN LET dfMin == CHOOSE d \in 0..(Len(Digits) - 1) : pszWhere = AreaWhere(d)
         IN  {AreaSelection(srcArea, dfMin)}
    ELSE {FIDsOf(S) : S \in SUBSET Features}

\* The call of an entry point: its arguments and what it has done so far.
NewEntry(point) ==
    [point |-> point,
     pc |-> point,
     ret |-> "none",
     pszWhere |-> nullptr,
     eMergeType |-> ELIMINATE_MERGE_LARGEST_AREA,
     osDriverName |-> "",
     osGeomColumn |-> <<>>,
     poDstLayer |-> "none",
     bFields |-> TRUE,
     osWhere |-> nullptr,
     installed |-> nullptr,
     attributeFilter |-> nullptr,
     papszEliminateFIDs |-> <<>>,
     vecFIDsToEliminate |-> <<>>,
     nCount |-> 0]

\* EliminatePolygonsWithOptionsEx up to its call of EliminatePolygonsByQuery.
\* bSrcLayer: the source layer was found; nGeomFieldCount: its geometry
\* fields; bCreateLayer: CreateLayer gave a layer; bFields: every CreateField
\* and CreateGeomField succeeded.  The layer CreateLayer returns is not
\* tested: a null one is dereferenced at 380 at the latest.  The results of
\* CreateField and CreateGeomField are not looked at.
WithOptionsExStep(e, bSrcLayer, nGeomFieldCount, bCreateLayer, bFields) ==
    IF ~bSrcLayer
    THEN [e EXCEPT !.pc = "done", !.ret = "OGRERR_FAILURE"]
    ELSE IF nGeomFieldCount # 1
    THEN [e EXCEPT !.pc = "done", !.ret = "OGRERR_UNSUPPORTED_OPERATION"]
    ELSE IF ~bCreateLayer
    THEN [e EXCEPT !.pc = "crashed", !.poDstLayer = "nullptr"]
    ELSE LET created == [e EXCEPT !.poDstLayer = "created", !.bFields = bFields]
         IN  IF e.pszWhere = nullptr
             THEN [created EXCEPT !.pc = "done",
                                  !.ret = "OGRERR_UNSUPPORTED_OPERATION"]
             ELSE [created EXCEPT
                     !.pc = "EliminatePolygonsByQuery",
                     !.osWhere = WhereForDriver(e.pszWhere, e.osDriverName,
                                                e.osGeomColumn)]

\* Faulty variant: the last feature read under the filter is left out.
ByQueryStepDropLast(e, bSet, vecFIDs, bReset) ==
    IF e.osWhere = nullptr \/ Len(e.osWhere) = 0
    THEN [e EXCEPT !.pc = "done", !.ret = "OGRERR_FAILURE"]
    ELSE IF ~bSet
    THEN [e EXCEPT !.pc = "done", !.ret = "OGRERR_CORRUPT_DATA"]
    ELSE LET read == [e EXCEPT !.installed = e.osWhere,
                               !.attributeFilter = e.osWhere,
                               !.vecFIDsToEliminate =
                                   SubSeq(vecFIDs, 1, Len(vecFIDs) - 1)]
         IN  IF ~bReset
             THEN [read EXCEPT !.pc = "done", !.ret = "OGRERR_CORRUPT_DATA"]
             ELSE [read EXCEPT !.pc = "EliminatePolygonsByFID",
                               !.attributeFilter = nullptr]

\* Faulty variant: the filter is left on the layer when the loader is called.
ByQueryStepKeepFilter(e, bSet, vecFIDs, bReset) ==
    IF e.osWhere = nullptr \/ Len(e.osWhere) = 0
    THEN [e EXCEPT !.pc = "done", !.ret = "OGRERR_FAILURE"]
    ELSE IF ~bSet
    THEN [e EXCEPT !.pc = "done", !.ret = "OGRERR_CORRUPT_DATA"]
    ELSE [e EXCEPT !.pc = "EliminatePolygonsByFID",
                   !.installed = e.osWhere,
                   !.attributeFilter = e.osWhere,
                   !.vecFIDsToEliminate = vecFIDs]

\* EliminatePolygonsByQuery up to its call of EliminatePolygonsByFID.  bSet
\* and bReset: SetAttributeFilter took the predicate, and took nullptr after
\* the features were read; vecFIDs: the FIDs read under the filter.
ByQueryStep(e, bSet, vecFIDs, bReset) ==
    IF e.osWhere = nullptr \/ Len(e.osWhere) = 0
    THEN [e EXCEPT !.pc = "done", !.ret = "OGRERR_FAILURE"]
    ELSE IF ~bSet
    THEN [e EXCEPT !.pc = "done", !.ret = "OGRERR_CORRUPT_DATA"]
    ELSE LET read == [e EXCEPT !.installed = e.osWhere,
                               !.attributeFilter = e.osWhere,
                               !.vecFIDsToEliminate = vecFIDs]
         IN  IF ~bReset
             THEN [read EXCEPT !.pc = "done", !.ret = "OGRERR_CORRUPT_DATA"]
             ELSE [read EXCEPT !.pc = "EliminatePolygonsByFID",
                               !.attributeFilter = nullptr]

\* EliminatePolygonsByFIDStrList up to its call of EliminatePolygonsByFID.
ByFIDStrListStep(e) ==
    [e EXCEPT !.pc = "EliminatePolygonsByFID",
              !.vecFIDsToEliminate =
                  [i \in 1..Len(e.papszEliminateFIDs) |->
                      CPLAtoFID(e.papszEliminateFIDs[i])]]

\* The return of EliminatePolygonsByFID is the return of the entry point.
ReturnStep(e, r) == [e EXCEPT !.pc = "done", !.ret = r.ret]

\* ------------------------------------------------------- entry points ----
\* What the datasets answer in EliminatePolygonsWithOptionsEx:
\* (bSrcLayer, nGeomFieldCount, bCreateLayer, bFields).
ExOutcomes ==
    {<<TRUE, 1, TRUE, TRUE>>}
        \cup {o \in {<<FALSE, 1, TRUE, TRUE>>, <<TRUE, 0, TRUE, TRUE>>,
                     <<TRUE, 2, TRUE, TRUE>>, <<TRUE, 1, FALSE, TRUE>>,
                     <<TRUE, 1, TRUE, FALSE>>} : MayFail}

\* What SetAttributeFilter answers in EliminatePolygonsByQuery: (bSet, bReset).
FilterOutcomes ==
    {<<TRUE, TRUE>>} \cup {o \in {<<FALSE, TRUE>>, <<TRUE, FALSE>>} : MayFail}

\* The call of EliminatePolygonsByFID an entry point ends with.
CallByFID(e) ==
    IF e.pc = "EliminatePolygonsByFID"
    THEN /\ run' = NewRun(e.vecFIDsToEliminate, e.eMergeType)
         /\ env' = NewEnv(e.vecFIDsToEliminate)
    ELSE UNCHANGED <<run, env>>

WithOptionsEx ==
    /\ entry.pc = "EliminatePolygonsWithOptionsEx"
    /\ \E o \in ExOutcomes :
        /\ entry' = WithOptionsExStep(entry, o[1], o[2], o[3], o[4])
        /\ Fault(o = <<TRUE, 1, TRUE, TRUE>>)
    /\ UNCHANGED <<srcArea, srcRelation, env, run, twin>>

ByQuery ==
    /\ entry.pc = "EliminatePolygonsByQuery"
    /\ \E o \in FilterOutcomes : \E vecFIDs \in Selections(entry.osWhere) :
        /\ entry' = ByQueryStep(entry, o[1], vecFIDs, o[2])
        /\ Fault(o[1] /\ o[2])
    /\ CallByFID(entry')
    /\ UNCHANGED <<srcArea, srcRelation, twin>>

ByFIDStrList ==
    /\ entry.pc = "EliminatePolygonsByFIDStrList"
    /\ entry' = ByFIDStrListStep(entry)
    /\ CallByFID(entry')
    /\ UNCHANGED <<srcArea, srcRelation, faults, twin>>

Return ==
    /\ entry.pc = "EliminatePolygonsByFID"
    /\ run.pc = "done"
    /\ entry' = ReturnStep(entry, run)
    /\ UNCHANGED <<srcArea, srcRelation, faults, env, run, twin>>

\* A source layer for the entry points: a strip of polygons, each touching
\* the next, the second one smaller than the others.
InitStrip ==
    /\ srcArea = [c \in Features |-> IF c = 2 THEN 1 ELSE 2]
    /\ srcRelation = [p \in Pairs |->
            IF p[2] = p[1] + 1 THEN [kind |-> "touch", len |-> 1]
            ELSE [kind |-> "far", len |-> 0]]
    /\ faults = 0

EntryCalls ==
    {[NewEntry("EliminatePolygonsWithOptionsEx") EXCEPT
        !.pszWhere = w, !.osDriverName = d, !.osGeomColumn = g] :
            w \in Predicates \cup {nullptr}, d \in Drivers, g \in GeomColumns}
    \cup {[NewEntry("EliminatePolygonsByQuery") EXCEPT
            !.pszWhere = w, !.osWhere = w] : w \in Predicates \cup {nullptr}}
    \cup {[NewEntry("EliminatePolygonsByFIDStrList") EXCEPT
            !.papszEliminateFIDs = l] : l \in FIDStrLists}
    \cup {[NewEntry("EliminatePolygonsByFID") EXCEPT
            !.vecFIDsToEliminate = l, !.nCount = Len(l), !.eMergeType = m] :
                l \in FIDLists, m \in MergeTypes}

\* Each entry point called over the strip.
InitEntry ==
    /\ InitStrip
    /\ twin = NoRun
    /\ entry \in EntryCalls
    /\ IF entry.point = "EliminatePolygonsByFID"
       THEN /\ run = NewRun(entry.vecFIDsToEliminate, entry.eMergeType)
            /\ env = NewEnv(entry.vecFIDsToEliminate)
       ELSE /\ run = NoRun
            /\ env = NewEnv(<<>>)

NextEntry == WithOptionsEx \/ ByQuery \/ ByFIDStrList \/ Next \/ Return

SpecEntry == InitEntry /\ [][NextEntry]_vars

\* EliminatePolygonsByQuery called with the area predicate of a threshold,
\* over every source layer.
InitArea ==
    /\ InitSource
    /\ twin = NoRun
    /\ run = NoRun
    /\ env = NewEnv(<<>>)
    /\ \E dfMin \in 1..(MaxArea + 1) : \E m \in MergeTypes :
        entry = [NewEntry("EliminatePolygonsByQuery") EXCEPT
                    !.pszWhere = AreaWhere(dfMin),
                    !.osWhere = AreaWhere(dfMin),
                    !.eMergeType = m]

NextArea == ByQuery \/ Next \/ Return

SpecArea == InitArea /\ [][NextArea]_vars

\* EliminateOptionsNew: the options a caller starts from.
EliminateOptionsNew ==
    [pszSrcFilename |-> nullptr,
     pszSrcLayerName |-> nullptr,
     pszDstFilename |-> nullptr,
     pszDstLayerName |-> nullptr,
     pszFormat |-> nullptr,
     pszWhere |-> nullptr,
     eMergeType |-> ELIMINATE_MERGE_LARGEST_AREA]

\* Values of eMergeType a caller can pass that are none of the enumerators:
\* the one below them and the one above (the type is a plain C enum).
OtherMergeTypes ==
    {ELIMINATE_MERGE_LARGEST_AREA - 1, ELIMINATE_MERGE_LONGEST_BOUNDARY + 1}

\* run is started with the merge type of a caller who chose none, twin with
\* LARGEST_AREA, both with the same FID list.
InitDefault ==
    /\ InitSource
    /\ \E l \in FIDLists :
       \E m \in {EliminateOptionsNew.eMergeType} \cup OtherMergeTypes :
        /\ twin = NewRun(l, ELIMINATE_MERGE_LARGEST_AREA)
        /\ run = NewRun(l, m)
        /\ env = NewEnv(l)
    /\ entry = NoEntry

SpecDefault == InitDefault /\ [][NextTwin]_vars

\* ------------------------------------------------------- command line ----
EXIT_SUCCESS == 0

EXIT_FAILURE == 1

\* A double: a whole number or not-a-number.
NaN == [nan |-> TRUE, v |-> 0]

Double(v) == [nan |-> FALSE, v |-> v]

\* a <= b on doubles: false whenever one of them is not a number.
LessEq(a, b) == ~a.nan /\ ~b.nan /\ a.v <= b.v

LowerCase ==
    <<"a", "b", "c", "d", "e", "f", "g", "h", "i", "j", "k", "l", "m",
      "n", "o", "p", "q", "r", "s", "t", "u", "v", "w", "x", "y", "z">>

UpperCase ==
    <<"A", "B", "C", "D", "E", "F", "G", "H", "I", "J", "K", "L", "M",
      "N", "O", "P", "Q", "R", "S", "T", "U", "V", "W", "X", "Y", "Z">>

toupper(c) ==
    IF c \in Range(LowerCase)
    THEN UpperCase[CHOOSE k \in 1..Len(LowerCase) : LowerCase[k] = c]
    ELSE c

\* EQUAL: the two strings are the same but for the case of their letters.
EQUAL(a, b) ==
    /\ Len(a) = Len(b)
    /\ \A k \in 1..Len(a) : toupper(a[k]) = toupper(b[k])

\* CPLAtofM for the strings of the model, which hold no fraction and no
\* exponent: "nan" is not-a-number, a string that starts (after blanks) with
\* an optional sign and digits is their value, any other string is 0.0.
CPLAtofM(nptr) ==
    LET k == SkipSpaces(nptr, 1)
        rest == SubSeq(nptr, k, Len(nptr))
    IN  IF rest = <<"n", "a", "n">> THEN NaN
        ELSE LET r == strtoll(nptr)
                 dfValue == Accumulate(0, r.digits)
             IN  Double(IF r.neg THEN 0 - dfValue ELSE dfValue)

\* CPLOPrintf("OGR_GEOM_AREA < %f", dfMin).
CPLOPrintfArea(dfMin) ==
    IF dfMin.nan THEN OGR_GEOM_AREA \o <<" ", "<", " ", "n", "a", "n">>
    ELSE AreaWhere(dfMin.v)

\* The words of the command lines: the three options (one of them in capital
\* letters as well), and words that serve as file names, as a format, as a
\* predicate or as the value of -min.
ArgWords ==
    {<<"-", "f">>, <<"-", "w", "h", "e", "r", "e">>, <<"-", "m", "i", "n">>,
     <<"-", "M", "I", "N">>, <<"1">>, <<"0">>, <<"n", "a", "n">>, <<"x">>}

ArgLists == UNION {[1..n -> ArgWords] : n \in 0..MaxArgs}

\* main before GDALGeneralCmdLineProcessor.  papszArgv[i] is the i-th word
\* after the program name, so nArgc is one more than their number.
NewMain(papszArgv) ==
    [point |-> "main",
     pc |-> "main",
     papszArgv |-> papszArgv,
     nArgc |-> Len(papszArgv) + 1,
     i |-> 1,
     pszSrcFilename |-> nullptr,
     pszDstFilename |-> nullptr,
     pszFormat |-> nullptr,
     pszWhere |-> nullptr,
     pszMin |-> nullptr,
     psOptions |-> EliminateOptionsNew,
     eErr |-> "none",
     bEliminate |-> FALSE,
     nExitStatus |-> EXIT_FAILURE]

HasEnoughAdditionalArgs(i, nArgc, nExtraArgs) == ~(i + nExtraArgs >= nArgc)

\* main up to its call of the processor: GDALGeneralCmdLineProcessor gives
\* the number of arguments, or nothing to go on with (bGeneral false).
mainStep(e, bGeneral) ==
    IF bGeneral THEN [e EXCEPT !.pc = "options"]
    ELSE [e EXCEPT !.pc = "exit"]

\* One turn of the loop over the arguments in
\* EliminatePolygonsCmdLineProcessor.
OptionStep(e) ==
    LET arg == e.papszArgv[e.i]
        bEnough == HasEnoughAdditionalArgs(e.i, e.nArgc, 1)
        fail == [e EXCEPT !.pc = "processed", !.eErr = "OGRERR_FAILURE"]
    IN  IF EQUAL(arg, <<"-", "f">>)
        THEN IF ~bEnough THEN fail
             ELSE [e EXCEPT !.pszFormat = e.papszArgv[e.i + 1], !.i = e.i + 2]
        ELSE IF EQUAL(arg, <<"-", "w", "h", "e", "r", "e">>)
        THEN IF ~bEnough THEN fail
             ELSE [e EXCEPT !.pszWhere = e.papszArgv[e.i + 1], !.i = e.i + 2]
        ELSE IF EQUAL(arg, <<"-", "m", "i", "n">>)
        THEN IF ~bEnough THEN fail
             ELSE [e EXCEPT !.pszMin = e.papszArgv[e.i + 1], !.i = e.i + 2]
        ELSE IF e.pszSrcFilename = nullptr
        THEN [e EXCEPT !.pszSrcFilename = arg, !.i = e.i + 1]
        ELSE IF e.pszDstFilename = nullptr
        THEN [e EXCEPT !.pszDstFilename = arg, !.i = e.i + 1]
        ELSE fail

\* EliminatePolygonsCmdLineProcessor behind its loop.  bDrivers: a driver is
\* found for the destination file name when no format is given.
OptionsStep(e, bDrivers) ==
    LET fail == [e EXCEPT !.pc = "processed", !.eErr = "OGRERR_FAILURE"]
        dfMin == CPLAtofM(e.pszMin)
    IN  IF e.pszSrcFilename = nullptr \/ e.pszDstFilename = nullptr THEN fail
        ELSE IF e.pszWhere # nullptr /\ e.pszMin # nullptr THEN fail
        ELSE IF e.pszWhere = nullptr /\ e.pszMin = nullptr THEN fail
        ELSE IF e.pszFormat = nullptr /\ ~bDrivers THEN fail
        ELSE IF e.pszMin # nullptr /\ LessEq(dfMin, Double(0)) THEN fail
        ELSE [e EXCEPT
                !.pc = "processed",
                !.eErr = "OGRERR_NONE",
                !.psOptions = [@ EXCEPT
                    !.pszSrcFilename = e.pszSrcFilename,
                    !.pszDstFilename = e.pszDstFilename,
                    !.pszFormat = IF e.pszFormat # nullptr THEN e.pszFormat
                                  ELSE <<"d", "r", "i", "v", "e", "r">>,
                    !.pszWhere = IF e.pszMin # nullptr
                                 THEN CPLOPrintfArea(dfMin)
                                 ELSE e.pszWhere]]

\* main behind the processor: the elimination is called when the processor
\* returned OGRERR_NONE, and eResult is what it returns.
EliminateStep(e, eResult) ==
    IF e.eErr = "OGRERR_NONE"
    THEN [e EXCEPT !.pc = "exit", !.bEliminate = TRUE, !.eErr = eResult,
                   !.nExitStatus = IF eResult = "OGRERR_NONE"
                                   THEN EXIT_SUCCESS ELSE EXIT_FAILURE]
    ELSE [e EXCEPT !.pc = "exit"]

main ==
    /\ entry.pc = "main"
    /\ \E bGeneral \in {TRUE} \cup {b \in {FALSE} : MayFail} :
        /\ entry' = mainStep(entry, bGeneral)
        /\ Fault(bGeneral)
    /\ UNCHANGED <<srcArea, srcRelation, env, run, twin>>

CmdLineOption ==
    /\ entry.pc = "options"
    /\ entry.i < entry.nArgc
    /\ entry' = OptionStep(entry)
    /\ UNCHANGED <<srcArea, srcRelation, faults, env, run, twin>>

CmdLineOptions ==
    /\ entry.pc = "options"
    /\ ~(entry.i < entry.nArgc)
    /\ \E bDrivers \in {TRUE} \cup {b \in {FALSE} : MayFail} :
        /\ entry' = OptionsStep(entry, bDrivers)
        /\ Fault(bDrivers)
    /\ UNCHANGED <<srcArea, srcRelation, env, run, twin>>

Eliminate ==
    /\ entry.pc = "processed"
    /\ \E eResult \in {"OGRERR_NONE"} \cup {r \in {"OGRERR_FAILURE"} : MayFail} :
        /\ entry' = EliminateStep(entry, eResult)
        /\ Fault(eResult = "OGRERR_NONE")
    /\ UNCHANGED <<srcArea, srcRelation, env, run, twin>>

\* The program is started with each argument list.
InitCmdLine ==
    /\ InitStrip
    /\ twin = NoRun
    /\ run = NoRun
    /\ env = NewEnv(<<>>)
    /\ entry \in {NewMain(papszArgv) : papszArgv \in ArgLists}

NextCmdLine == main \/ CmdLineOption \/ CmdLineOptions \/ Eliminate

SpecCmdLine == InitCmdLine /\ [][NextCmdLine]_vars

\* ------------------------------------------------- notions of the claims --
Returned(r) == r.pc = "done"

Succeeded(r) == r.pc = "done" /\ r.ret = "OGRERR_NONE"

\* Loaded features: read with a geometry and, for a victim, prepared.
Loaded == {c \in Features : env.load[c] = "ok"}

HasGeometry == {c \in Features : env.load[c] \in {"ok", "noprepare"}}

Selected == {c \in Features : FIDOf(c) \in env.victims}

LoadedVictims == Loaded \cap Selected

LoadedKeeps == Loaded \ Selected

KeepsWritten == {s \in LoadedKeeps : env.create[s] = "ok"}

TouchingNeighbours(v) == {c \in Loaded : Touches(v, c)}

\* The node whose list of creatures to merge holds v (0: none): v's chosen
\* neighbour.
Chosen(r, v) ==
    IF \E n \in Features : v \in Range(r.m_lstpoCreaturesToMerge[n])
    THEN CHOOSE n \in Features : v \in Range(r.m_lstpoCreaturesToMerge[n])
    ELSE 0

\* The keep feature at which the chain c -> Chosen(c) -> ... ends (0: none).
RECURSIVE ChainEndFrom(_, _, _)
ChainEndFrom(r, c, fuel) ==
    IF c \in Range(r.lstpoFeaturesToKeep) THEN c
    ELSE IF fuel = 0 \/ Chosen(r, c) = 0 THEN 0
    ELSE ChainEndFrom(r, Chosen(r, c), fuel - 1)

ChainEnd(r, c) == ChainEndFrom(r, c, NumFeatures)

Rows(r) == 1..Len(r.dstLayer)

RowsWith(r, v) == {k \in Rows(r) : v \in Range(r.dstLayer[k].geometries)}

RowsOf(r, s) == {k \in Rows(r) : r.dstLayer[k].poFeature = s}

\* Areas add up under union: the polygons do not overlap.
OutputArea(r) == SetSum(Rows(r), [k \in Rows(r) |-> SeqSum(r.dstLayer[k].geometries, srcArea)])

AreaOf(S) == SetSum(S, srcArea)

\* The victims whose resolution is over.
Resolved(r) ==
    IF r.pc \in {"start", "load"} THEN {}
    ELSE IF r.pc = "resolve"
    THEN {r.lstpoFeaturesToEliminate[k] : k \in 1..(r.iEliminate - 1)}
    ELSE Range(r.lstpoFeaturesToEliminate)

Recorded(r, v) == {r.m_lstNeighbors[v][k].poCreature : k \in 1..Len(r.m_lstNeighbors[v])}

Warned(r, w) == w \in Range(r.warnings)

\* ------------------------------------------------------------- claims -----

\* C1: after EliminatePolygonsByFID returns, the destination layer holds one
\* row per keep feature (a loaded feature whose FID is not in the victim set)
\* whose CreateFeature succeeded, and no row of a victim.
C1_OutputCount ==
    Returned(run) =>
        /\ Len(run.dstLayer) = Cardinality(KeepsWritten)
        /\ \A k \in Rows(run) : run.dstLayer[k].poFeature \notin Selected

C1_Witness ==
    /\ Succeeded(run)
    /\ LoadedVictims # {}
    /\ \E s \in LoadedKeeps : env.create[s] = "failed"
    /\ Len(run.dstLayer) >= 1

\* C2 as stated: every victim with a touching neighbour (keep or victim) is,
\* after the run, included in exactly one output feature.
C2_Original ==
    Returned(run) =>
        \A v \in LoadedVictims :
            TouchingNeighbours(v) # {} => Cardinality(RowsWith(run, v)) = 1

\* C2 as amended: a victim whose chain of chosen neighbours ends at a keep
\* feature whose output feature was written is included in exactly one output
\* feature, that keep feature's; every other victim is included in none.
C2_ExactlyOneWhenChainReachesWrittenKeep ==
    Returned(run) =>
        \A v \in LoadedVictims :
            LET s == ChainEnd(run, v)
            IN  IF s # 0 /\ s \in KeepsWritten
                THEN /\ Cardinality(RowsWith(run, v)) = 1
                     /\ RowsWith(run, v) = RowsOf(run, s)
                ELSE RowsWith(run, v) = {}

C2_Witness ==
    /\ Succeeded(run)
    /\ \E v \in LoadedVictims :
        /\ Chosen(run, v) \in LoadedVictims
        /\ ChainEnd(run, v) \in KeepsWritten
        /\ Cardinality(RowsWith(run, v)) = 1

C4_LargestArea ==
    run.eMergeType = ELIMINATE_MERGE_LARGEST_AREA =>
        \A v \in Features :
            Chosen(run, v) # 0 =>
                /\ Chosen(run, v) \in Recorded(run, v)
                /\ \A c \in Recorded(run, v) : srcArea[Chosen(run, v)] >= srcArea[c]

C4_Witness ==
    /\ run.eMergeType = ELIMINATE_MERGE_LARGEST_AREA
    /\ \E v \in Features :
        /\ Chosen(run, v) # 0
        /\ Len(run.m_lstNeighbors[v]) = 2
        /\ run.m_lstNeighbors[v][2].poCreature = Chosen(run, v)
        /\ srcArea[run.m_lstNeighbors[v][1].poCreature] < srcArea[Chosen(run, v)]

\* C5: under SMALLEST_AREA the neighbour chosen for a victim is one of its
\* recorded touching neighbours and no recorded neighbour has a smaller area.
C5_SmallestArea ==
    run.eMergeType = ELIMINATE_MERGE_SMALLEST_AREA =>
        \A v \in Features :
            Chosen(run, v) # 0 =>
                /\ Chosen(run, v) \in Recorded(run, v)
                /\ \A c \in Recorded(run, v) : srcArea[Chosen(run, v)] <= srcArea[c]

C5_Witness ==
    /\ run.eMergeType = ELIMINATE_MERGE_SMALLEST_AREA
    /\ \E v \in Features :
        /\ Chosen(run, v) # 0
        /\ Len(run.m_lstNeighbors[v]) = 2
        /\ run.m_lstNeighbors[v][2].poCreature = Chosen(run, v)
        /\ srcArea[run.m_lstNeighbors[v][1].poCreature] > srcArea[Chosen(run, v)]

\* The shared-boundary length recorded on v for its neighbour c.
LengthOf(r, v, c) ==
    LET k == CHOOSE k \in 1..Len(r.m_lstNeighbors[v]) : r.m_lstNeighbors[v][k].poCreature = c
    IN  r.m_lstNeighbors[v][k].dfBoundaryLength

\* C6: under LONGEST_BOUNDARY the neighbour chosen for a victim is one of its
\* recorded touching neighbours and no recorded neighbour shares a longer
\* boundary with the victim.
C6_LongestBoundary ==
    run.eMergeType = ELIMINATE_MERGE_LONGEST_BOUNDARY =>
        \A v \in Features :
            Chosen(run, v) # 0 =>
                /\ Chosen(run, v) \in Recorded(run, v)
                /\ \A c \in Recorded(run, v) :
                       LengthOf(run, v, Chosen(run, v)) >= LengthOf(run, v, c)

C6_Witness ==
    /\ run.eMergeType = ELIMINATE_MERGE_LONGEST_BOUNDARY
    /\ \E v \in Features :
        /\ Chosen(run, v) # 0
        /\ Len(run.m_lstNeighbors[v]) = 2
        /\ run.m_lstNeighbors[v][2].poCreature = Chosen(run, v)
        /\ run.m_lstNeighbors[v][1].dfBoundaryLength
               < run.m_lstNeighbors[v][2].dfBoundaryLength
        /\ srcArea[run.m_lstNeighbors[v][1].poCreature] > srcArea[Chosen(run, v)]

\* The value a merge policy ranks the neighbour c of v by.
RankOf(r, v, c) ==
    IF r.eMergeType = ELIMINATE_MERGE_LONGEST_BOUNDARY
    THEN LengthOf(r, v, c) ELSE srcArea[c]

PositionOf(r, v, c) ==
    CHOOSE k \in 1..Len(r.m_lstNeighbors[v]) : r.m_lstNeighbors[v][k].poCreature = c

\* C7: under each policy, when neighbours of a victim tie on the ranking
\* value, the chosen one is the first of the tied neighbours in the order the
\* NeighborEdges were appended.
C7_TieFirstAppended ==
    \A v \in Features :
        Chosen(run, v) # 0 /\ Chosen(run, v) \in Recorded(run, v) =>
            \A c \in Recorded(run, v) :
                RankOf(run, v, c) = RankOf(run, v, Chosen(run, v))
                    => PositionOf(run, v, Chosen(run, v)) <= PositionOf(run, v, c)

\* C8: the geometries unioned into the output feature of a survivor s are s
\* and the victims whose chain of chosen neighbours ends at s, each once.
C8_UnionIsChainClosure ==
    \A k \in Rows(run) :
        LET s == run.dstLayer[k].poFeature
            g == run.dstLayer[k].geometries
        IN  /\ s \in LoadedKeeps
            /\ Range(g) = {c \in Loaded : ChainEnd(run, c) = s}
            /\ Len(g) = Cardinality(Range(g))

C8_Witness ==
    /\ Succeeded(run)
    /\ \E k \in Rows(run) : \E v, w \in LoadedVictims :
        /\ Chosen(run, v) = w
        /\ Chosen(run, w) = run.dstLayer[k].poFeature
        /\ Range(run.dstLayer[k].geometries) = {v, w, run.dstLayer[k].poFeature}

\* C9: a victim without index candidates, or with candidates none of which
\* touches it, is left unassigned with the matching warning, is part of no
\* output feature, and the run goes on: every keep feature whose write
\* succeeds is emitted and the operation returns success.
NoCandidates(v) == \A c \in Loaded \ {v} : Relation(v, c).kind = "far"

C9_UntouchedVictimDropped ==
    /\ \A v \in Resolved(run) :
        TouchingNeighbours(v) = {} =>
            /\ Chosen(run, v) = 0
            /\ run.m_lstNeighbors[v] = <<>>
            /\ IF NoCandidates(v)
               THEN Warned(run, <<"No neighbors?", v>>)
               ELSE Warned(run, <<"No touching neighbors?", v>>)
            /\ RowsWith(run, v) = {}
            /\ run.ret \in {"none", "OGRERR_NONE"}
            /\ Returned(run) =>
                /\ run.ret = "OGRERR_NONE"
                /\ \A s \in KeepsWritten :
                    \E k \in Rows(run) :
                        /\ run.dstLayer[k].poFeature = s
                        /\ v \notin Range(run.dstLayer[k].geometries)

C9_Witness ==
    /\ Succeeded(run)
    /\ \E v, w \in LoadedVictims :
        /\ TouchingNeighbours(v) = {} /\ NoCandidates(v)
        /\ TouchingNeighbours(w) = {} /\ ~NoCandidates(w)
    /\ Len(run.dstLayer) >= 1

NotFound == "selected features not found in source layer!"

IsNotFound(w) == w[1] = NotFound

OtherWarnings(r) == SelectSeq(r.warnings, LAMBDA w : ~IsNotFound(w))

\* What a run computed: its state apart from the argument it has yet to read,
\* the FIDs it still waits for and its report of them.
Outcome(r) ==
    [r EXCEPT !.panEliminateFIDs = <<>>, !.setFIDsToEliminate = {},
              !.warnings = OtherWarnings(r)]

\* C10: under SpecAbsent, the run given L plus an absent FID and the run given
\* L alone build the same lists, the same assignment graph and the same output
\* features and return the same status; the first warns of the FID it did not
\* find once the source is read, and returns success when it returns after that.
C10_AbsentFIDIgnored ==
    /\ Outcome(run) = Outcome(twin)
    /\ run.setFIDsToEliminate \ AbsentFIDs = twin.setFIDsToEliminate \ AbsentFIDs
    /\ run.pc \notin {"start", "load"} /\ run.ret # "OGRERR_UNSUPPORTED_OPERATION" =>
        /\ \E w \in Range(run.warnings) : IsNotFound(w)
        /\ run.ret \in {"none", "OGRERR_NONE"}
        /\ Returned(run) => run.ret = "OGRERR_NONE"

C10_Witness ==
    /\ Succeeded(run)
    /\ Succeeded(twin)
    /\ \E v \in LoadedVictims : RowsWith(twin, v) # {}
    /\ \A w \in Range(twin.warnings) : ~IsNotFound(w)
    /\ \E w \in Range(run.warnings) : IsNotFound(w)

\* The keep features the emitter loop is done with.
Attempted(r) == {r.lstpoFeaturesToKeep[k] : k \in 1..(r.iKeep - 1)}

FailedWrite == "Failed to create feature in destination layer."

WriteFailed == {s \in Features : env.create[s] = "failed"}

\* The keep features written so far, in the order of the emitter loop.
WrittenInOrder(r) ==
    SelectSeq(SubSeq(r.lstpoFeaturesToKeep, 1, r.iKeep - 1),
              LAMBDA s : env.create[s] = "ok")

\* C11: a failed CreateFeature for a survivor is warned of and nothing else:
\* the loop goes on to the next survivor (the survivors attempted are exactly
\* those before the loop position, which ends behind the last survivor), the
\* rows written before stay in the destination layer in their order, and the
\* operation returns OGRERR_NONE.  Only a missing union result for a later
\* survivor (C12) ends the run elsewhere.
C11_WriteFailureDoesNotAbort ==
    /\ \A s \in Range(run.lstpoFeaturesToKeep) :
            s \in Attempted(run) <=> env.create[s] # "untried"
    /\ [k \in Rows(run) |-> run.dstLayer[k].poFeature] = WrittenInOrder(run)
    /\ \A s \in WriteFailed :
            Warned(run, <<FailedWrite, s>>) /\ RowsOf(run, s) = {}
    /\ WriteFailed # {} =>
        /\ run.ret \in {"none", "OGRERR_NONE"}
        /\ run.pc \in {"emit", "teardown", "done", "crashed"}
        /\ run.pc = "crashed" => env.create[Emitting(run)] = "untried"
        /\ run.pc = "emit" <=> run.iKeep <= Len(run.lstpoFeaturesToKeep)
        /\ Returned(run) =>
            /\ run.ret = "OGRERR_NONE"
            /\ Attempted(run) = Range(run.lstpoFeaturesToKeep)

C11_Witness ==
    /\ Succeeded(run)
    /\ Len(run.lstpoFeaturesToKeep) = 3
    /\ env.create[run.lstpoFeaturesToKeep[1]] = "ok"
    /\ env.create[run.lstpoFeaturesToKeep[2]] = "failed"
    /\ env.create[run.lstpoFeaturesToKeep[3]] = "ok"
    /\ Len(run.dstLayer) = 2

\* C12: when GEOSUnaryUnion_r returns no geometry for a survivor with victims
\* to merge, the survivor is skipped and the run goes on to teardown: the run
\* is never at the dereference of the missing result.
C12_UnionFailureSkipped == run.pc # "crashed"

\* The creatures the collection started at c visits, in the order it visits
\* them, followed down to depth fuel; 0 marks a list left unvisited below that
\* depth.  A collection that visits no creature twice on a path is never
\* deeper than the number of features.
RECURSIVE Visited(_, _, _)
RECURSIVE VisitedEach(_, _, _)
VisitedEach(lst, toMerge, fuel) ==
    IF lst = <<>> THEN <<>>
    ELSE <<Head(lst)>> \o Visited(Head(lst), toMerge, fuel - 1)
             \o VisitedEach(Tail(lst), toMerge, fuel)

Visited(c, toMerge, fuel) ==
    IF toMerge[c] = <<>> THEN <<>>
    ELSE IF fuel = 0 THEN <<0>>
    ELSE VisitedEach(toMerge[c], toMerge, fuel)

VictimCycle(r) ==
    \E a, b \in Range(r.lstpoFeaturesToEliminate) :
        a # b /\ Chosen(r, a) = b /\ Chosen(r, b) = a

\* C20: in every state of a run, also with victims that chose each other, the
\* collection started at a keep feature ends within the depth of the number of
\* features, visits no creature twice and never the keep feature itself, and
\* is what allCreaturesToMerge returns.
C20_CollectionTerminates ==
    \A s \in Range(run.lstpoFeaturesToKeep) :
        LET visited == Visited(s, run.m_lstpoCreaturesToMerge, NumFeatures)
        IN  /\ 0 \notin Range(visited)
            /\ Len(visited) = Cardinality(Range(visited))
            /\ s \notin Range(visited)
            /\ allCreaturesToMerge(s, run.m_lstpoCreaturesToMerge) = visited

C20_Witness ==
    /\ Succeeded(run)
    /\ VictimCycle(run)
    /\ \E k \in Rows(run) :
        \E a \in Range(run.lstpoFeaturesToEliminate) :
            /\ Touches(a, run.dstLayer[k].poFeature)
            /\ Chosen(run, a) \in Range(run.lstpoFeaturesToEliminate)

\* C16: under SpecDefault, a run whose merge type is the one EliminateOptionsNew
\* sets, or a value that is none of the three enumerators, is in every state
\* the run with ELIMINATE_MERGE_LARGEST_AREA: the same recorded neighbours,
\* the same chosen neighbours, the same output.
C16_DefaultIsLargestArea ==
    [run EXCEPT !.eMergeType = ELIMINATE_MERGE_LARGEST_AREA] = twin

C16_Witness ==
    /\ Succeeded(run)
    /\ run.eMergeType \in OtherMergeTypes
    /\ \E v \in Features :
        /\ Len(run.m_lstNeighbors[v]) = 2
        /\ Chosen(run, v) = run.m_lstNeighbors[v][1].poCreature
        /\ larger(run.m_lstNeighbors[v][1], run.m_lstNeighbors[v][2])
        /\ ~smaller(run.m_lstNeighbors[v][1], run.m_lstNeighbors[v][2])
        /\ ~larger(run.m_lstNeighbors[v][2], run.m_lstNeighbors[v][1])
        /\ longer(run.m_lstNeighbors[v][2], run.m_lstNeighbors[v][1])
        /\ ~longer(run.m_lstNeighbors[v][1], run.m_lstNeighbors[v][2])
        /\ RowsWith(run, v) # {}

\* No victims are specified in the call e: no predicate or an empty one for
\* the entry points that take a predicate, no FID for those that take FIDs.
NoVictimsSpecified(e) ==
    IF e.point \in {"EliminatePolygonsWithOptionsEx", "EliminatePolygonsByQuery"}
    THEN e.pszWhere = nullptr \/ e.pszWhere = <<>>
    ELSE IF e.point = "EliminatePolygonsByFIDStrList"
    THEN e.papszEliminateFIDs = <<>>
    ELSE e.nCount = 0

\* C13: under SpecEntry, an entry point called without victims does not return
\* success.
C13_NoVictimsIsError ==
    entry.pc = "done" /\ NoVictimsSpecified(entry) => entry.ret # "OGRERR_NONE"

\* C14: under SpecEntry, once CreateLayer gave no layer, or a field of the
\* destination layer could not be created, EliminatePolygonsWithOptionsEx has
\* returned an error: it is at no later statement and has not returned
\* success.
C14_DestinationFailureIsFatal ==
    entry.poDstLayer = "nullptr" \/ ~entry.bFields =>
        entry.pc = "done" /\ entry.ret # "OGRERR_NONE"

\* A string is a decimal numeral: blanks, at most one sign, digits, nothing
\* behind them.
IsNumeral(str) ==
    \E i \in 0..Len(str) : \E j \in {i, i + 1} :
        /\ j < Len(str)
        /\ \A k \in 1..i : str[k] = " "
        /\ j = i + 1 => str[j] \in {"+", "-"}
        /\ \A k \in (j + 1)..Len(str) : IsDigit(str[k])

\* The digits at the end of a string.
NumeralDigits(str) ==
    LET m == CHOOSE m \in 1..(Len(str) + 1) :
                /\ \A k \in m..Len(str) : IsDigit(str[k])
                /\ m > 1 => ~IsDigit(str[m - 1])
    IN  SubSeq(str, m, Len(str))

NumeralNegative(str) ==
    "-" \in Range(str) /\ \E k \in 1..Len(str) : IsDigit(str[k]) /\ str[k] # "0"

NumeralOverflows(str) ==
    Exceeds(NumeralDigits(str),
            IF "-" \in Range(str) THEN LLONG_MIN ELSE LLONG_MAX)

RECURSIVE Pow10(_)
Pow10(n) == IF n = 0 THEN 1 ELSE 10 * Pow10(n - 1)

\* The number a numeral stands for: each digit times the power of ten of its
\* place.
DecimalValue(str) ==
    LET d == NumeralDigits(str)
    IN  SetSum(1..Len(d),
               [k \in 1..Len(d) |-> DigitValue(d[k]) * Pow10(Len(d) - k)])

Rejected(str) ==
    \/ str = <<>>
    \/ ~IsNumeral(str)
    \/ NumeralNegative(str)
    \/ NumeralOverflows(str)

\* C17: under SpecEntry, EliminatePolygonsByFIDStrList turns each string into
\* OGRNullFID when it is empty, is no numeral to its end, is negative or is
\* out of the range of 64 bits, and into the number it stands for otherwise
\* (zero included); the FID set EliminatePolygonsByFID builds holds the
\* numbers of the other strings and nothing for a rejected one.
C17_FIDStringParsing ==
    entry.point = "EliminatePolygonsByFIDStrList" /\ entry.pc # entry.point =>
        /\ Len(entry.vecFIDsToEliminate) = Len(entry.papszEliminateFIDs)
        /\ \A i \in 1..Len(entry.papszEliminateFIDs) :
            LET str == entry.papszEliminateFIDs[i]
                nFID == entry.vecFIDsToEliminate[i]
            IN  IF Rejected(str) THEN nFID = OGRNullFID
                ELSE nFID = DecimalValue(str) /\ nFID >= 0
        /\ run.pc = "load" /\ run.iFeature = 1 =>
            run.setFIDsToEliminate =
                {DecimalValue(entry.papszEliminateFIDs[i]) :
                    i \in {k \in 1..Len(entry.papszEliminateFIDs) :
                              ~Rejected(entry.papszEliminateFIDs[k])}}

C17_Witness ==
    /\ entry.point = "EliminatePolygonsByFIDStrList"
    /\ entry.pc = "done"
    /\ entry.ret = "OGRERR_NONE"
    /\ Len(entry.papszEliminateFIDs) = 2
    /\ Len(entry.papszEliminateFIDs[1]) = MaxStrLen
    /\ IsDigit(entry.papszEliminateFIDs[1][1])
    /\ entry.vecFIDsToEliminate = <<OGRNullFID, 0>>
    /\ run.lstpoFeaturesToEliminate = <<1>>
    /\ RowsWith(run, 1) # {}

IsIdentifierChar(c) ==
    c \in Range(OGR_GEOM_AREA) \cup {"X", "g"} \cup Range(Digits)

\* str from position k on, with the area token rewritten where it stands as a
\* token of its own: no identifier character before it or behind it.
RECURSIVE TokenRewriteFrom(_, _, _)
TokenRewriteFrom(str, osAfter, k) ==
    LET n == Len(OGR_GEOM_AREA)
    IN  IF k > Len(str) THEN <<>>
        ELSE IF /\ k + n - 1 <= Len(str)
                /\ SubSeq(str, k, k + n - 1) = OGR_GEOM_AREA
                /\ k > 1 => ~IsIdentifierChar(str[k - 1])
                /\ k + n <= Len(str) => ~IsIdentifierChar(str[k + n])
        THEN osAfter \o TokenRewriteFrom(str, osAfter, k + n)
        ELSE <<str[k]>> \o TokenRewriteFrom(str, osAfter, k + 1)

\* C18: under SpecEntry, the attribute filter EliminatePolygonsWithOptionsEx
\* has installed is, for the drivers SQLite and GPKG, the caller's predicate
\* with each token OGR_GEOM_AREA replaced by ST_Area(<geometry column>) and
\* nothing else changed, and for any other driver the caller's predicate.
C18_PredicateRewrittenForSQL ==
    entry.point = "EliminatePolygonsWithOptionsEx" /\ entry.installed # nullptr =>
        entry.installed =
            IF entry.osDriverName \in {"SQLite", "GPKG"}
            THEN TokenRewriteFrom(entry.pszWhere, AreaExpr(entry.osGeomColumn), 1)
            ELSE entry.pszWhere

\* The threshold of the area predicate the call was made with.
Threshold ==
    CHOOSE dfMin \in 0..(Len(Digits) - 1) : entry.pszWhere = AreaWhere(dfMin)

RowArea(r, k) == SeqSum(r.dstLayer[k].geometries, srcArea)

\* C15: under SpecArea, after EliminatePolygonsByQuery with the predicate
\* OGR_GEOM_AREA < A, every feature of the destination layer has an area of A
\* or more, so the same predicate selects none of them; and a run in which
\* the predicate selected nothing and nothing failed wrote every feature of
\* its source with its own geometry, in the order of the source.
C15_AreaPredicateIdempotent ==
    run # NoRun =>
        /\ \A k \in Rows(run) : RowArea(run, k) >= Threshold
        /\ AreaSelection([k \in Rows(run) |-> RowArea(run, k)], Threshold) = <<>>
        /\ entry.pc = "done" /\ entry.ret = "OGRERR_NONE" /\ faults = 0
              /\ entry.vecFIDsToEliminate = <<>> =>
            run.dstLayer =
                [c \in Features |-> [poFeature |-> c, geometries |-> <<c>>]]

C15_Witness ==
    /\ entry.pc = "done"
    /\ entry.ret = "OGRERR_NONE"
    /\ Len(entry.vecFIDsToEliminate) = 2
    /\ \E v \in Range(run.lstpoFeaturesToEliminate) : RowsWith(run, v) = {}
    /\ \E k \in Rows(run) :
        /\ Len(run.dstLayer[k].geometries) = 2
        /\ srcArea[run.dstLayer[k].poFeature] = Threshold
        /\ RowArea(run, k) > Threshold

\* ---------------------------------------------------------------- C19 ----
\* A string is a number above zero: a numeral that is not negative and has a
\* digit other than zero.
IsPositiveNumber(str) ==
    /\ IsNumeral(str)
    /\ "-" \notin Range(str)
    /\ \E k \in 1..Len(str) : IsDigit(str[k]) /\ str[k] # "0"

\* The options the processor has read are exactly one of -min and -where,
\* and the value of -min, if given, is above zero.
OneOfMinAndWhere(e) ==
    /\ (e.pszMin # nullptr) # (e.pszWhere # nullptr)
    /\ e.pszMin # nullptr => IsPositiveNumber(e.pszMin)

\* C19: the command-line processor accepts an argument list only if exactly
\* one of -min and -where is given and, with -min A, A > 0; in every other
\* case it fails, the elimination is never started and the exit status is
\* not zero.
C19_ExactlyOneOfMinAndWhere ==
    /\ entry.pc = "processed" /\ entry.eErr = "OGRERR_NONE"
        => OneOfMinAndWhere(entry)
    /\ entry.pc = "exit" /\ ~OneOfMinAndWhere(entry)
        => ~entry.bEliminate /\ entry.nExitStatus # EXIT_SUCCESS

\* ---------------------------------------------------------------- C21 ----
\* The node reached from c after n chosen-neighbour edges (0: the chain ended).
RECURSIVE ChosenAfter(_, _, _)
ChosenAfter(r, c, n) ==
    IF n = 0 \/ c = 0 THEN c ELSE ChosenAfter(r, Chosen(r, c), n - 1)

\* The closed cycles of chosen-neighbour edges, each as the set of its victims.
Cycles(r) ==
    {{ChosenAfter(r, v, n) : n \in 1..NumFeatures} :
        v \in {w \in Range(r.lstpoFeaturesToEliminate) :
                \E n \in 1..NumFeatures : ChosenAfter(r, w, n) = w}}

\* The diagnostics of a run that are about a feature of K.
DiagnosticsAbout(r, K) ==
    {k \in 1..Len(r.warnings) :
        r.warnings[k][1] # "selected features not found in source layer!"
            /\ r.warnings[k][2] \in K}

\* C21: after a run, the victims of a closed cycle of chosen-neighbour edges
\* are in no output feature, and exactly one diagnostic was emitted for each
\* such cycle.
C21_CycleDroppedWithOneDiagnostic ==
    Returned(run) =>
        \A K \in Cycles(run) :
            /\ \A v \in K : RowsWith(run, v) = {}
            /\ Cardinality(DiagnosticsAbout(run, K)) = 1

\* ---------------------------------------------------------------- C22 ----
NoDuplicates(lst) == Len(lst) = Cardinality(Range(lst))

\* The index holds exactly the features of the two lists, no feature is on
\* both or twice on one, and a feature of the index is a victim exactly when
\* the caller listed its FID.
Partitioned(r) ==
    /\ Range(r.lstpoFeaturesToKeep) \cap Range(r.lstpoFeaturesToEliminate) = {}
    /\ Range(r.lstpoFeaturesToKeep) \cup Range(r.lstpoFeaturesToEliminate) = r.poSTRTree
    /\ NoDuplicates(r.lstpoFeaturesToKeep)
    /\ NoDuplicates(r.lstpoFeaturesToEliminate)
    /\ \A c \in r.poSTRTree :
        c \in Range(r.lstpoFeaturesToEliminate) <=> FIDOf(c) \in env.victims

\* C22: from the end of loading until the index is destroyed, every feature
\* in the index is on exactly one of the list of features to keep and the
\* list of features to eliminate, on the latter exactly when its FID was in
\* the caller's set; and no step after loading changes either list.
C22_PartitionFixedAfterLoading ==
    /\ [](run.pc \in {"resolve", "emit", "teardown"} => Partitioned(run))
    /\ [][run.pc \notin {"start", "load"} =>
            /\ run'.lstpoFeaturesToKeep = run.lstpoFeaturesToKeep
            /\ run'.lstpoFeaturesToEliminate = run.lstpoFeaturesToEliminate]_vars

C22_Witness ==
    /\ run.pc = "teardown"
    /\ Partitioned(run)
    /\ Len(run.lstpoFeaturesToKeep) >= 1
    /\ Len(run.lstpoFeaturesToEliminate) = MaxFIDs
    /\ Len(run.dstLayer) >= 1
    /\ \E v \in Range(run.lstpoFeaturesToEliminate) : Chosen(run, v) # 0

\* ---------------------------------------------------------------- C23 ----
\* How often v is in the list of creatures to merge of n.
TimesAssigned(r, n, v) ==
    Cardinality({k \in 1..Len(r.m_lstpoCreaturesToMerge[n]) :
                    r.m_lstpoCreaturesToMerge[n][k] = v})

\* C23: in every state of a run, each victim is in the list of creatures to
\* merge of at most one node and at most once in it, and no feature to keep
\* is in any such list; only victims whose turn in the resolution loop has
\* come are in one.
C23_AtMostOneChosenNeighbour ==
    /\ \A v \in Range(run.lstpoFeaturesToEliminate) :
        /\ Cardinality({n \in Features : TimesAssigned(run, n, v) > 0}) <= 1
        /\ \A n \in Features : TimesAssigned(run, n, v) <= 1
        /\ v \notin Resolved(run) => \A n \in Features : TimesAssigned(run, n, v) = 0
    /\ \A s \in Features \ Range(run.lstpoFeaturesToEliminate) :
        \A n \in Features : TimesAssigned(run, n, s) = 0

C23_Witness ==
    /\ run.pc = "resolve"
    /\ run.iEliminate = MaxFIDs
    /\ \E v \in Resolved(run) : \E n \in Range(run.lstpoFeaturesToKeep) :
        /\ TimesAssigned(run, n, v) = 1
        /\ Touches(Resolving(run), n)

KindOf(resource) ==
    IF resource = "poSTRTree" THEN "index"
    ELSE IF resource = "lstFeatures" THEN "nodes"
    ELSE "context"

\* C25: in every state of a run the resources released so far are, in this
\* order, the spatial index, the feature nodes and the GEOS context (no node
\* is destroyed while the index exists, the context goes last); a run that
\* returns OGRERR_NONE has released all three and one that returns at the
\* GEOS check, which creates none of them, has released nothing; nothing is
\* released before the emitter loop is over.
C25_TeardownOrder ==
    /\ \A k \in 1..Len(run.released) :
        KindOf(run.released[k]) = <<"index", "nodes", "context">>[k]
    /\ Len(run.released) \in {0, 3}
    /\ Succeeded(run) => Len(run.released) = 3
    /\ Returned(run) /\ ~Succeeded(run) => run.released = <<>> /\ run.lstFeatures = <<>>
    /\ run.pc # "done" => run.released = <<>>

C25_Witness ==
    /\ Succeeded(run)
    /\ run.released = <<"poSTRTree", "lstFeatures", "hGEOSCtxt">>
    /\ Len(run.lstFeatures) = NumFeatures
    /\ Len(run.dstLayer) >= 1
    /\ \E v \in Range(run.lstpoFeaturesToEliminate) : RowsWith(run, v) # {}

\* ---------------------------------------------------------------- C26 ----
\* The run was started by the selection by predicate.
ByPredicate ==
    /\ entry # NoEntry
    /\ entry.point \in {"EliminatePolygonsWithOptionsEx", "EliminatePolygonsByQuery"}
    /\ run # NoRun

\* The features the predicate selected: those read under the filter.
Matching == {c \in Features : FIDOf(c) \in Range(entry.vecFIDsToEliminate)}

\* C26: when the selection by predicate has called the loader, the predicate
\* was installed as the filter, the FIDs collected are in the order the layer
\* is read, and the filter is off the layer; so once the loader loop is over
\* it has read every source feature, every feature it loaded that did not
\* match is on the list of features to keep, and every feature it loaded that
\* matched is on the list of features to eliminate.
C26_FilterRemovedBeforeLoading ==
    ByPredicate =>
        /\ entry.installed = entry.osWhere
        /\ entry.attributeFilter = nullptr
        /\ \A i, j \in 1..Len(entry.vecFIDsToEliminate) :
            i < j => entry.vecFIDsToEliminate[i] < entry.vecFIDsToEliminate[j]
        /\ run.pc \in {"resolve", "emit", "teardown", "crashed"} \/ Succeeded(run) =>
            /\ \A c \in Features : env.load[c] # "unread"
            /\ Range(run.lstpoFeaturesToKeep) = Loaded \ Matching
            /\ Range(run.lstpoFeaturesToEliminate) = Loaded \cap Matching

C26_Witness ==
    /\ ByPredicate
    /\ entry.pc = "done"
    /\ entry.ret = "OGRERR_NONE"
    /\ Cardinality(Matching) = 1
    /\ Cardinality(Range(run.lstpoFeaturesToKeep)) = NumFeatures - 1
    /\ Len(run.dstLayer) = NumFeatures - 1
    /\ \E v \in Matching : RowsWith(run, v) # {}

\* ---------------------------------------------------------------- C27 ----
\* The run found GDAL built without GEOS.
TopologyUnavailable ==
    run # NoRun /\ run.pc = "done" /\ run.ret = "OGRERR_UNSUPPORTED_OPERATION"

\* C27: when GEOS is unavailable the operation returns an error, and it has
\* then neither created the destination layer nor read a source feature,
\* under a filter or in the loader, nor written an output feature.
C27_TopologyUnavailableAtEntry ==
    TopologyUnavailable =>
        /\ entry # NoEntry =>
            /\ entry.poDstLayer # "created"
            /\ entry.installed = nullptr
            /\ entry.pc = "done" => entry.ret # "OGRERR_NONE"
        /\ \A c \in Features : env.load[c] = "unread"
        /\ run.dstLayer = <<>>

\* ---------------------------------------------------------------- C28 ----
\* The features the loader found without a geometry.
WithoutGeometry == {c \in Features : env.load[c] = "nogeometry"}

\* The features named by the output rows, as survivor or as merged geometry.
InOutput == UNION {Range(run.dstLayer[k].geometries) : k \in 1..Len(run.dstLayer)}

\* C28: a source feature without geometry is warned about and dropped by the
\* loader: it is on neither list, not in the index, no neighbour of any
\* victim, assigned to nothing and assigned nothing, and in no output row.
C28_NoGeometryDropped ==
    run.pc # "start" =>
        \A c \in WithoutGeometry :
            /\ <<"No geometry?", c>> \in Range(run.warnings)
            /\ c \notin Range(run.lstpoFeaturesToKeep)
            /\ c \notin Range(run.lstpoFeaturesToEliminate)
            /\ c \notin run.poSTRTree
            /\ c \notin run.prepared
            /\ \A v \in Features :
                /\ c \notin Candidates(run, v)
                /\ \A k \in 1..Len(run.m_lstNeighbors[v]) :
                       run.m_lstNeighbors[v][k].poCreature # c
                /\ c \notin Range(run.m_lstpoCreaturesToMerge[v])
            /\ run.m_lstpoCreaturesToMerge[c] = <<>>
            /\ c \notin InOutput

\* A run that dropped a feature without geometry which touches a victim, and
\* wrote the others.
C28_Witness ==
    /\ run.pc = "done" /\ run.ret = "OGRERR_NONE"
    /\ run.dstLayer # <<>>
    /\ \E c \in WithoutGeometry : \E v \in Range(run.lstpoFeaturesToEliminate) :
        /\ Touches(v, c)
        /\ v \in InOutput

\* ---------------------------------------------------------------- C29 ----
\* The nodes the loader inserted into the index.
Indexed(r) == Range(r.lstpoFeaturesToKeep) \cup Range(r.lstpoFeaturesToEliminate)

\* The nodes recorded as neighbours of v.
NeighboursOf(r, v) ==
    {r.m_lstNeighbors[v][k].poCreature : k \in 1..Len(r.m_lstNeighbors[v])}

\* C29: the node that receives an assigned victim v is another node than v,
\* one the index query for v returned (in the index, bounding boxes meeting),
\* and one that touches v.
C29_AssignedToTouchingCandidate ==
    \A n \in Features : \A v \in Range(run.m_lstpoCreaturesToMerge[n]) :
        /\ n # v
        /\ n \in Indexed(run)
        /\ Relation(v, n).kind # "far"
        /\ run.pc # "done" => n \in Candidates(run, v)
        /\ n \in NeighboursOf(run, v)
        /\ Touches(v, n)

\* A victim assigned to a touching node although the index also returned a
\* larger node that does not touch it, under LARGEST_AREA.
C29_Witness ==
    /\ run.pc = "emit"
    /\ run.eMergeType = ELIMINATE_MERGE_LARGEST_AREA
    /\ \E n \in Features : \E v \in Range(run.m_lstpoCreaturesToMerge[n]) :
        \E c \in Candidates(run, v) :
            /\ ~Touches(v, c)
            /\ srcArea[c] > srcArea[n]

\* ---------------------------------------------------------------- C30 ----
\* The nodes that touch v without a shared boundary length: at a point, or
\* with a length that could not be computed.
ZeroLengthTouching(r, v) ==
    {c \in Indexed(r) : Touches(v, c) /\ Relation(v, c).len = 0}

\* The areas of the neighbours recorded for v other than z.
OtherAreas(r, v, z) == {srcArea[x] : x \in NeighboursOf(r, v) \ {z}}

\* C30: a node that touches a victim at a point only, or with a length that
\* could not be computed, is recorded as a neighbour with length 0; it is
\* chosen under the area policies whenever its area is the best of the
\* neighbours', and under LONGEST_BOUNDARY only if no neighbour has a
\* positive length.
C30_ZeroLengthNeighbourEligible ==
    \A v \in Resolved(run) : \A z \in ZeroLengthTouching(run, v) :
        /\ \E k \in 1..Len(run.m_lstNeighbors[v]) :
               run.m_lstNeighbors[v][k] = [poCreature |-> z, dfBoundaryLength |-> 0]
        /\ (/\ run.eMergeType = ELIMINATE_MERGE_LARGEST_AREA
            /\ \A a \in OtherAreas(run, v, z) : srcArea[z] > a)
               => v \in Range(run.m_lstpoCreaturesToMerge[z])
        /\ (/\ run.eMergeType = ELIMINATE_MERGE_SMALLEST_AREA
            /\ \A a \in OtherAreas(run, v, z) : srcArea[z] < a)
               => v \in Range(run.m_lstpoCreaturesToMerge[z])
        /\ (/\ run.eMergeType = ELIMINATE_MERGE_LONGEST_BOUNDARY
            /\ v \in Range(run.m_lstpoCreaturesToMerge[z]))
               => \A k \in 1..Len(run.m_lstNeighbors[v]) :
                      run.m_lstNeighbors[v][k].dfBoundaryLength = 0

\* A victim merged, under LARGEST_AREA, into a neighbour whose length could
\* not be computed, ahead of a smaller neighbour with a positive length; the
\* failure was warned about.
C30_Witness ==
    /\ run.pc = "done" /\ run.ret = "OGRERR_NONE"
    /\ run.eMergeType = ELIMINATE_MERGE_LARGEST_AREA
    /\ \E v \in Resolved(run) : \E z \in ZeroLengthTouching(run, v) :
        /\ Relation(v, z).kind = "nolength"
        /\ <<"Failed length calculation on boundary", v, z>> \in Range(run.warnings)
        /\ v \in Range(run.m_lstpoCreaturesToMerge[z])
        /\ \E k \in 1..Len(run.m_lstNeighbors[v]) :
               run.m_lstNeighbors[v][k].dfBoundaryLength > 0

====
